---- MODULE Spec2Model ----
(***************************************************************************)
(* Docco: code shield (extract_code_blocks / restore_code_blocks), section *)
(* numbering (SectionNumberer, Document), TOC list emission, heading id    *)
(* assignment and numbering (toc.py), the expansion driver and the inline  *)
(* directives (parser.py, inline.py), InlineProcessor (commands.py),       *)
(* placeholder substitution, and the language filters.                     *)
(*                                                                         *)
(* A text is a sequence of tokens.  A token is one character ("BT" for a   *)
(* backtick, "\n", or "x" for any other character), one placeholder, or    *)
(* one directive or tag, kept whole because none of them holds a backtick  *)
(* or a newline.                                                           *)
(***************************************************************************)
EXTENDS Integers, Sequences, FiniteSets, TLC

VARIABLES
    \* code shield
    content,            \* the argument of extract_code_blocks
    protected_content,  \* temp_content, the text with placeholders
    code_blocks,        \* the dict, in insertion order: <<[placeholder, original]>>
    restored,           \* the result of restore_code_blocks
    shield_pc,          \* "input" | "extracted" | "restored" | "idle"
    \* SectionNumberer
    counters,           \* self.counters
    addendum_counter,   \* self.addendum_counter
    returned,           \* the string the last number_section returned
    arg_level,          \* section.level of the last number_section call
    num_op,             \* the last operation: "init" | "number_section" | "reset"
    num_calls,          \* the numeric calls since the last reset: <<[level, parts]>>
    num_returned,       \* the strings they returned
    addenda_numbered,   \* how many addenda were numbered since the last reset
    after_reset,        \* reset() has been called
    reset_dirty,        \* the last reset() found sections numbered
    fresh,              \* a SectionNumberer constructed when reset() was called
    fresh_returned,     \* what it returned for the last call
    \* Document
    sections,           \* self.sections: <<[level, number, manual]>>
    numbered,           \* self._numbered
    html,               \* what the last operation returned, when it was
                        \* build_html: the sections rendered, <<[level, number]>>
    doc_op,             \* the last operation of the Document
    cleared,            \* clear_sections has been called
    clear_dirty,        \* the last clear_sections found sections numbered
    \* toc.py
    toc_headings,       \* the argument of _build_toc_html: <<[level, id, text]>>
    toc_lines,          \* toc_lines, the lines of its result
    toc_pc,             \* "input" | "built" | "idle"
    html_content,       \* the argument of _extract_headings: <<node>>
    modified_html,      \* its first result
    headings,           \* its second result: <<[level, id, text]>>
    ids_pc,             \* "input" | "extracted" | "processed" | "idle"
    toc_marker,         \* process_toc: the document starts with the TOC comment
    result,             \* process_toc: [toc, body], the lines of the TOC put
                        \* in place of the comment and the nodes after it
    \* parser.py
    base_dir,           \* the files under base_dir: [a |-> the text of a.md,
                        \* p |-> what running p.py does, c |-> the number
                        \* of chain files c1.md .. ck.md]; m.md does not
                        \* exist
    allow_python,       \* the argument allow_python
    input_content,      \* parse_markdown: content, the text read from input_file
    md_content,         \* content of process_directives_iteratively
    iteration,          \* iteration
    pm_pc,              \* parse_markdown: "expanding" | "returned" |
                        \* "md_written" | "html_written" | "done" | "raised" | "idle"
    error,              \* the exception that left parse_markdown, or None
    written,            \* the files written to output_dir
    executed,           \* how many times exec(code) of execute_python_file ran
    \* content/commands.py
    inlines_dir,        \* the templates under inlines/: [t |-> the text of t.md];
                        \* m.md does not exist
    max_depth,          \* self.max_depth
    ip_content,         \* the argument of InlineProcessor.process
    ip_result,          \* what it returned: [text, log], log being the nested
                        \* calls and the expansions made on the way
    ip_pc,              \* "input" | "processed" | "idle"
    \* placeholder substitution (commands.py and inline.py)
    tpl_template,       \* template of _render_inline, file_content of replace_inline
    tpl_args,           \* args: a function from the names given to their values
    tpl_rendered,       \* rendered, and file_content after the loop
    tpl_pc,             \* "input" | "rendered" (commands.py) |
                        \* "inlined" (inline.py) | "idle"
    \* language_filter.py and language.py
    lf_content,         \* content
    lf_language,        \* language, target_lang
    lf_filtered,        \* what the filter returned
    lf_pc,              \* "input" | "filtered" (filter_for_language) |
                        \* "split" (filter_content_by_language) | "idle"
    \* content/markdown_parser.py
    markdown_content,   \* the argument of parse_string: a sequence of lines
    parsed,             \* sections, the list it returned
    mdp_pc,             \* "input" | "parsed" | "idle"
    \* a document with one code span, given to process_inlines, to
    \* has_directives and to filter_content_by_language
    cs_pre,             \* the text before the code span
    cs_span,            \* the code span
    cs_post,            \* the text after it
    cs_language,        \* target_lang
    cs_out,             \* [text, found]: the text returned, or what
                        \* has_directives returned
    cs_pc,              \* "input" | "inlined" | "scanned" | "filtered" | "idle"
    \* InlineProcessor._load_template and the files it reads
    template_cache,     \* self._template_cache: name -> text
    template_files,     \* inlines/<name>.md: [exists, raises, text] per name
    lt_name,            \* inline_name of the last call
    lt_returned,        \* what the last call returned (None or the text)
    lt_first,           \* name -> the text its first successful load returned
    lt_pc               \* "new" | "loaded" | "changed" | "idle"

shieldVars == <<content, protected_content, code_blocks, restored, shield_pc>>

numVars == <<counters, addendum_counter>>

numGhostVars ==
    <<returned, arg_level, num_op, num_calls, num_returned, addenda_numbered,
      after_reset, reset_dirty, fresh, fresh_returned>>

docVars == <<sections, numbered, html, doc_op, cleared, clear_dirty>>

tocVars == <<toc_headings, toc_lines, toc_pc>>

idsVars == <<html_content, modified_html, headings, ids_pc, toc_marker, result>>

parserVars ==
    <<base_dir, allow_python, input_content, md_content, iteration, pm_pc, error, written,
      executed>>

inlineVars == <<inlines_dir, max_depth, ip_content, ip_result, ip_pc>>

templateVars == <<tpl_template, tpl_args, tpl_rendered, tpl_pc>>

\* the state of parser.py and of the modules after it
langVars == <<lf_content, lf_language, lf_filtered, lf_pc>>

mdVars == <<markdown_content, parsed, mdp_pc>>

codeVars == <<cs_pre, cs_span, cs_post, cs_language, cs_out, cs_pc>>

cacheVars == <<template_cache, template_files, lt_name, lt_returned, lt_first, lt_pc>>

laterVars == <<parserVars, inlineVars, templateVars, langVars, mdVars, codeVars, cacheVars>>

vars == <<shieldVars, numVars, numGhostVars, docVars, tocVars, idsVars, laterVars>>

\* ------------------------------------------------------------------ bounds

MaxLen == 9
MaxNumeric == 5
MaxAddenda == 27
MaxSections == 3
MaxHeadings == 3
MaxNodes == 3
MaxContent == 2
MaxInline == 3
MaxDepth == 3
MaxTemplate == 3
MaxSegments == 4
MaxLines == 4
MaxChain == 12

\* ------------------------------------------------------------- code shield

Backtick == "BT"
Newline == "\n"
Chars == {Backtick, Newline, "x"}

Texts(n) == UNION {[1..k -> Chars] : k \in 0..n}

IsBt(s, i) == i \in 1..Len(s) /\ s[i] = Backtick

\* n backticks at s[i..i+n-1]
BtRun(s, i, n) == \A k \in 0..(n - 1) : IsBt(s, i + k)

\* ^ and $ under re.MULTILINE, at the position before s[i]
AtLineStart(s, i) == i = 1 \/ s[i - 1] = Newline
AtLineEnd(s, i) == i = Len(s) + 1 \/ (i \in 1..Len(s) /\ s[i] = Newline)

\* the least element of a non-empty set of integers
Least(S) == CHOOSE m \in S : \A k \in S : m <= k

\* the fenced pattern (line start or newline, three backticks, lazy any text,
\* three backticks, newline or line end; DOTALL | MULTILINE), tried at s[i]:
\* the index after the match, or 0
FencedMatchEnd(s, i) ==
    LET b == IF s[i] = Newline THEN i + 1 ELSE i
        opens == /\ (s[i] = Newline \/ AtLineStart(s, i))
                 /\ BtRun(s, b, 3)
        closes == {j \in (b + 3)..Len(s) : BtRun(s, j, 3) /\ AtLineEnd(s, j + 3)}
    IN  IF ~opens \/ closes = {} THEN 0
        ELSE LET j == Least(closes)
             IN  IF j + 3 <= Len(s) /\ s[j + 3] = Newline THEN j + 4 ELSE j + 3

\* the 4-backtick pattern (four backticks, greedy non-backticks, four
\* backticks), tried at s[i]
Inline4MatchEnd(s, i) ==
    LET bts == {k \in (i + 4)..Len(s) : IsBt(s, k)}
    IN  IF ~BtRun(s, i, 4) \/ bts = {} THEN 0
        ELSE LET k == Least(bts)
             IN  IF BtRun(s, k, 4) THEN k + 4 ELSE 0

\* the n-backtick pattern for n in 1..3 (n backticks not followed by a
\* backtick, lazy text without newline, n backticks not followed by a
\* backtick), tried at s[i]
InlineMatchEnd(n, s, i) ==
    LET closes == {j \in (i + n)..Len(s) :
                      /\ BtRun(s, j, n)
                      /\ ~IsBt(s, j + n)
                      /\ \A k \in (i + n)..(j - 1) : s[k] # Newline}
    IN  IF ~BtRun(s, i, n) \/ IsBt(s, i + n) \/ closes = {} THEN 0
        ELSE Least(closes) + n

MatchEnd(pat, s, i) ==
    CASE pat = 0 -> FencedMatchEnd(s, i)
      [] pat = 4 -> Inline4MatchEnd(s, i)
      [] OTHER -> InlineMatchEnd(pat, s, i)

RECURSIVE StripLeft(_)
StripLeft(s) == IF s # <<>> /\ Head(s) = Newline THEN StripLeft(Tail(s)) ELSE s

RECURSIVE StripRight(_)
StripRight(s) ==
    IF s # <<>> /\ s[Len(s)] = Newline THEN StripRight(SubSeq(s, 1, Len(s) - 1)) ELSE s

\* original.strip('\n')
StripNewlines(s) == StripRight(StripLeft(s))

\* replace_fenced: the replacement text and the dict entry, counter[0] = counter
replace_fenced(original, counter) ==
    LET placeholder == "___FENCED_CODE_BLOCK_" \o ToString(counter) \o "___"
        lead == IF original[1] = Newline THEN <<Newline>> ELSE <<>>
        trail == IF original[Len(original)] = Newline THEN <<Newline>> ELSE <<>>
    IN  [text |-> lead \o <<placeholder>> \o trail,
         entry |-> [placeholder |-> placeholder, original |-> StripNewlines(original)]]

\* replace_inline
replace_inline(original, counter) ==
    LET placeholder == "___INLINE_CODE_" \o ToString(counter) \o "___"
    IN  [text |-> <<placeholder>>,
         entry |-> [placeholder |-> placeholder, original |-> original]]

\* re.sub(pattern, repl, s): leftmost matches, left to right, never overlapping
RECURSIVE SubScan(_, _, _, _, _)
SubScan(pat, s, i, out, blocks) ==
    IF i > Len(s) THEN [text |-> out, blocks |-> blocks]
    ELSE LET e == MatchEnd(pat, s, i)
         IN  IF e = 0 THEN SubScan(pat, s, i + 1, Append(out, s[i]), blocks)
             ELSE LET m == SubSeq(s, i, e - 1)
                      r == IF pat = 0 THEN replace_fenced(m, Len(blocks))
                           ELSE replace_inline(m, Len(blocks))
                  IN  SubScan(pat, s, e, out \o r.text, Append(blocks, r.entry))

Sub(pat, acc) == SubScan(pat, acc.text, 1, <<>>, acc.blocks)

\* extract_code_blocks: fenced first, then 4, 3, 2, 1 backticks
extract_code_blocks(s) ==
    Sub(1, Sub(2, Sub(3, Sub(4, Sub(0, [text |-> s, blocks |-> <<>>])))))

\* str.replace(placeholder, original)
RECURSIVE StrReplace(_, _, _)
StrReplace(s, placeholder, original) ==
    IF s = <<>> THEN <<>>
    ELSE (IF Head(s) = placeholder THEN original ELSE <<Head(s)>>)
         \o StrReplace(Tail(s), placeholder, original)

\* the loop of restore_code_blocks over the entries order[1], order[2], ...
RECURSIVE RestoreIn(_, _, _)
RestoreIn(s, blocks, order) ==
    IF order = <<>> THEN s
    ELSE LET b == blocks[Head(order)]
         IN  RestoreIn(StrReplace(s, b.placeholder, b.original), blocks, Tail(order))

\* restore_code_blocks: dict order is insertion order
restore_code_blocks(s, blocks) == RestoreIn(s, blocks, [k \in 1..Len(blocks) |-> k])

\* -------------------------------------------------------- SectionNumberer

\* chr(n) for n in 65..95
chr(n) ==
    <<"A", "B", "C", "D", "E", "F", "G", "H", "I", "J", "K", "L", "M",
      "N", "O", "P", "Q", "R", "S", "T", "U", "V", "W", "X", "Y", "Z",
      "[", "\\", "]", "^", "_">>[n - 64]

\* ".".join(parts) of the decimal strings of parts
RECURSIVE DotJoin(_)
DotJoin(parts) ==
    IF parts = <<>> THEN ""
    ELSE IF Len(parts) = 1 THEN ToString(parts[1])
    ELSE ToString(parts[1]) \o "." \o DotJoin(Tail(parts))

Positive(c) == c > 0

\* SectionNumberer.__init__
NewNumberer == [counters |-> <<0, 0, 0>>, addendum_counter |-> 0]

\* as BumpCounters, but the deeper counters keep their values
BumpCountersKeepDeeper(c, level) ==
    [i \in 1..3 |-> IF i = level THEN c[i] + 1 ELSE c[i]]

\* as BumpCounters, but the shallower counters are reset too
BumpCountersResetOthers(c, level) ==
    [i \in 1..3 |-> IF i = level THEN c[i] + 1 ELSE 0]

\* the counters after number_section on a numeric level: the level's counter
\* incremented, the deeper ones reset
BumpCounters(c, level) ==
    [i \in 1..3 |-> IF i > level THEN 0 ELSE IF i = level THEN c[i] + 1 ELSE c[i]]

\* [c for c in self.counters[:section.level] if c > 0]
NumberParts(c, level) == SelectSeq(SubSeq(c, 1, level), Positive)

\* as number_section, but the letter is taken before the counter is read back
\* (one letter ahead)
number_section_letter_ahead(n, level) ==
    IF level = 0
    THEN [counters |-> n.counters,
          addendum_counter |-> n.addendum_counter + 1,
          number |-> chr(65 + n.addendum_counter + 1),
          parts |-> <<>>]
    ELSE LET c == BumpCounters(n.counters, level)
         IN  [counters |-> c,
              addendum_counter |-> n.addendum_counter,
              number |-> DotJoin(NumberParts(c, level)),
              parts |-> NumberParts(c, level)]

\* SectionNumberer.number_section on numberer n: the numberer after the call,
\* the returned string and the list it was joined from
number_section(n, level) ==
    IF level = 0
    THEN [counters |-> n.counters,
          addendum_counter |-> n.addendum_counter + 1,
          number |-> chr(64 + n.addendum_counter + 1),
          parts |-> <<>>]
    ELSE LET c == BumpCounters(n.counters, level)
         IN  [counters |-> c,
              addendum_counter |-> n.addendum_counter,
              number |-> DotJoin(NumberParts(c, level)),
              parts |-> NumberParts(c, level)]

\* as reset, but the addendum counter is forgotten
reset_counters_only(n) ==
    [counters |-> <<0, 0, 0>>, addendum_counter |-> n.addendum_counter]

\* SectionNumberer.reset
reset(n) == [counters |-> <<0, 0, 0>>, addendum_counter |-> 0]

Numberer == [counters |-> counters, addendum_counter |-> addendum_counter]

\* ---------------------------------------------------------------- Document

\* Optional[str]: <<>> is None, <<s>> is the string s
None == <<>>
Some(s) == <<s>>

\* the manual numbers add_section is called with
ManualNumbers == {"X"}

\* the loop of Document._ensure_numbered without the test for None: every
\* section gets the next number of numberer n
RECURSIVE NumberAll(_, _, _)
NumberAll(secs, i, n) ==
    IF i > Len(secs) THEN [sections |-> secs, numberer |-> n]
    ELSE LET r == number_section(n, secs[i].level)
         IN  NumberAll(
                 [secs EXCEPT ![i].number = Some(r.number)], i + 1,
                 [counters |-> r.counters, addendum_counter |-> r.addendum_counter])

\* the loop of Document._ensure_numbered from section i on: every section
\* whose number is None gets the next number of numberer n
RECURSIVE NumberUnnumbered(_, _, _)
NumberUnnumbered(secs, i, n) ==
    IF i > Len(secs) THEN [sections |-> secs, numberer |-> n]
    ELSE IF secs[i].number = None
    THEN LET r == number_section(n, secs[i].level)
         IN  NumberUnnumbered(
                 [secs EXCEPT ![i].number = Some(r.number)], i + 1,
                 [counters |-> r.counters, addendum_counter |-> r.addendum_counter])
    ELSE NumberUnnumbered(secs, i + 1, n)

\* Document._ensure_numbered
ensure_numbered(secs, isNumbered, n) ==
    IF ~isNumbered THEN NumberUnnumbered(secs, 1, n)
    ELSE [sections |-> secs, numberer |-> n]

\* ------------------------------------------------------------------ toc.py

\* a heading's text is a sequence of characters and whole tags
Tags == {"<em>", "</em>"}
IsTag(c) == c \in Tags
NotTag(c) == ~IsTag(c)

\* _strip_html_tags
strip_html_tags(text) == SelectSeq(text, NotTag)

\* str.lower on one character
Lower(c) == IF c = "F" THEN "f" ELSE c

\* the classes \w, \s and the hyphen of the patterns of _generate_id
IsWordChar(c) == c \in {"F", "f", "o", "1", "_"}
IsHyphenOrSpace(c) == c \in {"-", " "}
KeptInSlug(c) == IsWordChar(c) \/ IsHyphenOrSpace(c)

\* re.sub("[-\s]+", "-", s): every run of hyphens and spaces becomes one hyphen
RECURSIVE CollapseRuns(_)
CollapseRuns(s) ==
    IF s = <<>> THEN <<>>
    ELSE IF IsHyphenOrSpace(Head(s))
    THEN IF Len(s) >= 2 /\ IsHyphenOrSpace(s[2]) THEN CollapseRuns(Tail(s))
         ELSE <<"-">> \o CollapseRuns(Tail(s))
    ELSE <<Head(s)>> \o CollapseRuns(Tail(s))

RECURSIVE StripHyphensLeft(_)
StripHyphensLeft(s) ==
    IF s # <<>> /\ Head(s) = "-" THEN StripHyphensLeft(Tail(s)) ELSE s

RECURSIVE StripHyphensRight(_)
StripHyphensRight(s) ==
    IF s # <<>> /\ s[Len(s)] = "-"
    THEN StripHyphensRight(SubSeq(s, 1, Len(s) - 1)) ELSE s

\* the string of a sequence of characters
RECURSIVE Concat(_)
Concat(s) == IF s = <<>> THEN "" ELSE Head(s) \o Concat(Tail(s))

\* _generate_id
generate_id(text) ==
    LET stripped == strip_html_tags(text)
        lowered == [i \in 1..Len(stripped) |-> Lower(stripped[i])]
        slug == StripHyphensRight(StripHyphensLeft(
                    CollapseRuns(SelectSeq(lowered, KeptInSlug))))
    IN  IF slug = <<>> THEN "heading" ELSE Concat(slug)

\* the while loop of process_heading: base_id-counter, counter going up, until
\* the id is not in used_ids
RECURSIVE NextFreeId(_, _, _)
NextFreeId(base_id, counter, used_ids) ==
    LET heading_id == base_id \o "-" \o ToString(counter)
    IN  IF heading_id \in used_ids THEN NextFreeId(base_id, counter + 1, used_ids)
        ELSE heading_id

\* the id process_heading gives a heading: the id attribute it has, or else
\* the generated id, made unique among used_ids
HeadingId(node, used_ids) ==
    IF node.id # None THEN node.id[1]
    ELSE LET base_id == generate_id(node.text)
         IN  IF base_id \in used_ids THEN NextFreeId(base_id, 1, used_ids)
             ELSE base_id

\* no heading is ever excluded
IsExcludedNever(source, i) == FALSE

\* a heading is excluded when the toc:exclude comment stands right before it
IsExcluded(source, i) == i > 1 /\ source[i - 1].kind = "toc_exclude"

\* _extract_headings from node i on: re.sub with process_heading over the
\* headings in document order, used_ids and headings threaded through; the
\* toc:exclude comments are removed from the result
RECURSIVE ExtractFrom(_, _, _, _, _)
ExtractFrom(source, i, out, hs, used_ids) ==
    IF i > Len(source) THEN [modified_html |-> out, headings |-> hs]
    ELSE IF source[i].kind = "toc_exclude"
    THEN ExtractFrom(source, i + 1, out, hs, used_ids)
    ELSE LET heading_id == HeadingId(source[i], used_ids)
             node == [source[i] EXCEPT !.id = Some(heading_id)]
             entry == [level |-> source[i].level, id |-> heading_id,
                       text |-> source[i].text]
         IN  ExtractFrom(source, i + 1, Append(out, node),
                         IF IsExcluded(source, i) THEN hs ELSE Append(hs, entry),
                         used_ids \cup {heading_id})

\* _extract_headings
extract_headings(source) == ExtractFrom(source, 1, <<>>, <<>>, {})

\* _update_counters: the counters after the call and the returned string
update_counters(c, level) ==
    LET c2 == [i \in 1..6 |->
                  IF i = level THEN c[i] + 1 ELSE IF i > level THEN 0 ELSE c[i]]
        number == DotJoin(SelectSeq(SubSeq(c2, 1, level), Positive))
    IN  [counters |-> c2,
         number |-> IF number # "" THEN number \o " " ELSE ""]

\* one line of toc_lines
Line(tag, level, href, number, text) ==
    [tag |-> tag, level |-> level, href |-> href, number |-> number, text |-> text]

NavOpen == Line("<nav>", 0, "", "", <<>>)
NavClose == Line("</nav>", 0, "", "", <<>>)
NavEmpty == Line("<nav><p>No headings found</p></nav>", 0, "", "", <<>>)
UlOpen(level) == Line("<ul>", level, "", "", <<>>)
UlClose == Line("</ul>", 0, "", "", <<>>)
LiOpen(href, number, text) == Line("<li>", 0, href, number, text)
LiClose == Line("</li>", 0, "", "", <<>>)

\* _close_lists_up_to without the test of li_open: the lists are closed, the
\* open list items are not
RECURSIVE CloseListsOnly(_, _, _, _)
CloseListsOnly(lines, current_level, target_level, li_open) ==
    IF current_level > target_level
    THEN CloseListsOnly(Append(lines, UlClose), current_level - 1, target_level,
                        current_level - 1 > 0)
    ELSE [lines |-> lines, current_level |-> current_level, li_open |-> li_open]

\* _close_lists_up_to
RECURSIVE close_lists_up_to(_, _, _, _)
close_lists_up_to(lines, current_level, target_level, li_open) ==
    IF current_level > target_level
    THEN close_lists_up_to(
             Append(IF li_open THEN Append(lines, LiClose) ELSE lines, UlClose),
             current_level - 1, target_level, current_level - 1 > 0)
    ELSE [lines |-> lines, current_level |-> current_level, li_open |-> li_open]

\* _open_lists_down_to
RECURSIVE open_lists_down_to(_, _, _)
open_lists_down_to(lines, current_level, target_level) ==
    IF current_level < target_level
    THEN open_lists_down_to(Append(lines, UlOpen(current_level + 1)),
                            current_level + 1, target_level)
    ELSE [lines |-> lines, current_level |-> current_level]

\* the body of the for loop of _build_toc_html for heading h
TocStep(st, h) ==
    LET u == update_counters(st.counters, h.level)
        a == IF st.current_level > h.level
             THEN close_lists_up_to(st.lines, st.current_level, h.level, st.li_open)
             ELSE [lines |-> st.lines, current_level |-> st.current_level,
                   li_open |-> st.li_open]
        b == IF a.current_level = h.level /\ a.li_open
             THEN [a EXCEPT !.lines = Append(a.lines, LiClose), !.li_open = FALSE]
             ELSE a
        c == IF b.current_level = 0
             THEN [lines |-> Append(b.lines, UlOpen(h.level)), current_level |-> h.level]
             ELSE IF b.current_level < h.level
             THEN open_lists_down_to(b.lines, b.current_level, h.level)
             ELSE [lines |-> b.lines, current_level |-> b.current_level]
    IN  [lines |-> Append(c.lines, LiOpen(h.id, u.number, strip_html_tags(h.text))),
         current_level |-> c.current_level,
         li_open |-> TRUE,
         counters |-> u.counters]

RECURSIVE TocLoop(_, _)
TocLoop(st, hs) == IF hs = <<>> THEN st ELSE TocLoop(TocStep(st, Head(hs)), Tail(hs))

\* the closing while loop of _build_toc_html
RECURSIVE CloseRemaining(_, _, _)
CloseRemaining(lines, current_level, li_open) ==
    IF current_level > 0
    THEN CloseRemaining(
             Append(IF li_open THEN Append(lines, LiClose) ELSE lines, UlClose),
             current_level - 1, current_level - 1 > 0)
    ELSE lines

\* _build_toc_html
build_toc_html(hs) ==
    IF hs = <<>> THEN <<NavEmpty>>
    ELSE LET st == TocLoop([lines |-> <<NavOpen>>, current_level |-> 0,
                            li_open |-> FALSE, counters |-> <<0, 0, 0, 0, 0, 0>>], hs)
         IN  Append(CloseRemaining(st.lines, st.current_level, st.li_open), NavClose)

\* the loop of _number_headings over the heading list: heading_numbers, the
\* dict from id to number, a later entry with the same id overwriting
RECURSIVE HeadingNumbers(_, _, _)
HeadingNumbers(hs, c, heading_numbers) ==
    IF hs = <<>> THEN heading_numbers
    ELSE LET r == update_counters(c, Head(hs).level)
             heading_id == Head(hs).id
         IN  HeadingNumbers(Tail(hs), r.counters,
                 [x \in DOMAIN heading_numbers \cup {heading_id} |->
                     IF x = heading_id THEN r.number ELSE heading_numbers[x]])

\* a node as it stands in the text before _number_headings: no number span
Unnumbered(node) ==
    [kind |-> node.kind, level |-> node.level, id |-> node.id,
     text |-> node.text, number |-> None]

\* add_number: the heading gets the span when its id is in heading_numbers
add_number(node, heading_numbers) ==
    IF node.kind = "heading" /\ node.id # None
       /\ node.id[1] \in DOMAIN heading_numbers
    THEN [Unnumbered(node) EXCEPT !.number = Some(heading_numbers[node.id[1]])]
    ELSE Unnumbered(node)

\* _number_headings
number_headings(nodes, hs) ==
    LET heading_numbers == HeadingNumbers(hs, <<0, 0, 0, 0, 0, 0>>, [x \in {} |-> ""])
    IN  [i \in 1..Len(nodes) |-> add_number(nodes[i], heading_numbers)]

\* process_toc on a document that starts with the TOC comment (marker) or
\* has none: without the comment the document comes back as it is
process_toc(marker, source) ==
    IF ~marker
    THEN [toc |-> <<>>, body |-> [i \in 1..Len(source) |-> Unnumbered(source[i])]]
    ELSE LET r == extract_headings(source)
         IN  [toc |-> build_toc_html(r.headings),
              body |-> number_headings(r.modified_html, r.headings)]

\* ------------------------------------------------- parser.py and inline.py

MAX_ITERATIONS == 10

\* a well-formed inline directive is one token: it holds neither a backtick
\* nor a newline; MalformedInline has the marker but no quoted path
InlineA == "<!-- inline:\"a.md\" -->"
InlineMissing == "<!-- inline:\"m.md\" -->"
InlinePy == "<!-- inline:\"p.py\" -->"
MalformedInline == "<!-- inline: a.md -->"

\* the directive to the chain file c<j>.md
ChainDirective(j) == "<!-- inline:\"c" \o ToString(j) \o ".md\" -->"

ChainDirectives == {ChainDirective(j) : j \in 1..MaxChain + 1}

\* the text of c<j>.md in a chain of k files: every file but the last inlines
\* the next one, the last is plain text
ChainFile(k, j) == IF j < k THEN <<ChainDirective(j + 1)>> ELSE <<"x">>

\* the tokens the pattern of process_inlines matches
InlineDirectives == {InlineA, InlineMissing, InlinePy} \cup ChainDirectives

\* the tokens the pattern of has_directives finds
InlineMarkers == InlineDirectives \cup {MalformedInline}

IsInlineMarker(c) == c \in InlineMarkers

\* has_directives: the marker is looked for in the text with placeholders
has_directives(s) ==
    LET protected == extract_code_blocks(s).text
    IN  \E i \in 1..Len(protected) : IsInlineMarker(protected[i])

\* an execute_python_file that does not look at allow_python
ExecutePythonFileUnchecked(py, allow) ==
    IF py.raises THEN [error |-> Some("ValueError: Python execution error"),
                       text |-> <<>>, ran |-> 1]
    ELSE [error |-> None, text |-> py.stdout, ran |-> 1]

\* execute_python_file on p.py; ran: how many times exec(code) was called
execute_python_file(py, allow) ==
    IF ~allow THEN [error |-> Some("ValueError: Python file execution not allowed"),
                    text |-> <<>>, ran |-> 0]
    ELSE IF py.raises THEN [error |-> Some("ValueError: Python execution error"),
                            text |-> <<>>, ran |-> 1]
    ELSE [error |-> None, text |-> py.stdout, ran |-> 1]

\* process_inlines.replace_inline on one directive
inline_replacement(directive, dir, allow) ==
    CASE directive = InlineMissing ->
             [error |-> Some("FileNotFoundError"), text |-> <<>>, ran |-> 0]
      [] directive = InlinePy -> execute_python_file(dir.p, allow)
      [] directive \in ChainDirectives ->
             LET j == CHOOSE i \in 1..MaxChain + 1 : directive = ChainDirective(i)
             IN  IF j <= dir.c
                 THEN [error |-> None, text |-> ChainFile(dir.c, j), ran |-> 0]
                 ELSE [error |-> Some("FileNotFoundError"), text |-> <<>>, ran |-> 0]
      [] OTHER -> [error |-> None, text |-> dir.a, ran |-> 0]

\* re.sub(pattern, replace_inline, protected_content) from token i on: the
\* first replacement that raises ends the call
RECURSIVE ExpandFrom(_, _, _, _, _)
ExpandFrom(protected, i, out, dir, allow) ==
    IF i > Len(protected) THEN [error |-> None, text |-> out, ran |-> 0]
    ELSE IF protected[i] \in InlineDirectives
    THEN LET r == inline_replacement(protected[i], dir, allow)
             rest == ExpandFrom(protected, i + 1, out \o r.text, dir, allow)
         IN  IF r.error # None THEN r
             ELSE [rest EXCEPT !.ran = r.ran + rest.ran]
    ELSE ExpandFrom(protected, i + 1, Append(out, protected[i]), dir, allow)

\* process_inlines: shield, expand, restore
process_inlines(s, dir, allow) ==
    LET shielded == extract_code_blocks(s)
        r == ExpandFrom(shielded.text, 1, <<>>, dir, allow)
    IN  IF r.error # None THEN r
        ELSE [r EXCEPT !.text = restore_code_blocks(r.text, shielded.blocks)]

\* ---------------------------------------------------- content/commands.py

\* a directive, whole, is one token; the self-closing one to t has the
\* argument a, the others have no argument
SelfClosingT == "<!-- inline: t a=\"v\" /-->"
SelfClosingM == "<!-- inline: m /-->"
BlockOpenT == "<!-- inline: t -->"
BlockOpenM == "<!-- inline: m -->"
BlockClose == "<!-- /inline -->"

SelfClosings == {SelfClosingT, SelfClosingM}

\* the tokens at which block_pattern and self_closing_pattern can start
Openers == SelfClosings \cup {BlockOpenT, BlockOpenM}

\* group(1) of a match that starts at the token
inline_name(opener) == IF opener \in {SelfClosingT, BlockOpenT} THEN "t" ELSE "m"

\* _parse_args on the argument text of a match: the only argument there is
\* is a="v" of SelfClosingT
parse_args(span) ==
    IF \E i \in 1..Len(span) : span[i] = SelfClosingT
    THEN [a |-> <<"v">>] ELSE [k \in {} |-> <<>>]

\* block_pattern tried at s[i]: the index of the first closing comment after
\* it, or 0
BlockMatchEnd(s, i) ==
    LET closes == {j \in (i + 1)..Len(s) : s[j] = BlockClose}
    IN  IF s[i] \in Openers /\ closes # {} THEN Least(closes) ELSE 0

\* self_closing_pattern tried at s[i]: the index of the first token that ends
\* with /-->, or 0
SelfClosingMatchEnd(s, i) ==
    LET closes == {k \in i..Len(s) : s[k] \in SelfClosings}
    IN  IF s[i] \in Openers /\ closes # {} THEN Least(closes) ELSE 0

InlineMatchAt(block, s, i) ==
    IF block THEN BlockMatchEnd(s, i) ELSE SelfClosingMatchEnd(s, i)

\* block_pattern.search(content) or self_closing_pattern.search(content)
MoreInlines(s) ==
    \E i \in 1..Len(s) : BlockMatchEnd(s, i) # 0 \/ SelfClosingMatchEnd(s, i) # 0

\* _load_template
load_template(name) == IF name = "t" THEN Some(inlines_dir.t) ELSE None

\* a placeholder is one token; args is a function from the names given to
\* their values
Placeholders == {"{{a}}", "{{b}}", "{{content}}"}

\* group(1) of var_pattern on a placeholder
var_name(c) ==
    CASE c = "{{a}}" -> "a" [] c = "{{b}}" -> "b" [] OTHER -> "content"

\* var_pattern.sub(replace_var, template): args.get(var_name, '')
RECURSIVE substitute(_, _)
substitute(template, args) ==
    IF template = <<>> THEN <<>>
    ELSE LET c == Head(template)
             value == IF c \notin Placeholders THEN <<c>>
                      ELSE IF var_name(c) \in DOMAIN args THEN args[var_name(c)]
                      ELSE <<>>
         IN  value \o substitute(Tail(template), args)

\* the loop of process_inlines.replace_inline over args.items(), the keys in
\* the order of the directive: str.replace of the placeholder by the value
RECURSIVE fill_placeholders(_, _, _)
fill_placeholders(file_content, args, keys) ==
    IF keys = <<>> THEN file_content
    ELSE LET key == Head(keys)
             filled == IF key \in DOMAIN args
                       THEN StrReplace(file_content, "{{" \o key \o "}}", args[key])
                       ELSE file_content
         IN  fill_placeholders(filled, args, Tail(keys))

\* the depth limit is looked at one level too late
AtDepthLimitLate(depth) == depth > max_depth

\* if depth >= self.max_depth
AtDepthLimit(depth) == depth >= max_depth

\* a missing template makes the directive vanish
UnexpandedDropped(original) == <<>>

\* template is None: return original
Unexpanded(original) == original

RECURSIVE process_recursive(_, _), SubInlines(_, _, _, _, _)

\* _render_inline; with its result the log of what was called to make it
render_inline(name, args, original, depth) ==
    LET template == load_template(name)
    IN  IF template = None THEN [text |-> Unexpanded(original), log |-> {}]
        ELSE LET rendered == substitute(template[1], args)
             IN  IF depth < max_depth
                 THEN LET r == process_recursive(rendered, depth)
                      IN  [text |-> r.text,
                           log |-> r.log \cup {[kind |-> "call", depth |-> depth,
                                                caller |-> depth - 1,
                                                unchanged |-> r.text = rendered]}]
                 ELSE [text |-> rendered, log |-> {}]

\* block_pattern.sub(expand_block, content) when block, else
\* self_closing_pattern.sub(expand_self_closing, content), from s[i] on
SubInlines(block, s, i, acc, depth) ==
    IF i > Len(s) THEN acc
    ELSE LET e == InlineMatchAt(block, s, i)
         IN  IF e = 0
             THEN SubInlines(block, s, i + 1,
                             [acc EXCEPT !.text = Append(@, s[i])], depth)
             ELSE LET original == SubSeq(s, i, e)
                      args == IF block
                              THEN [content |-> SubSeq(s, i + 1, e - 1)]
                                   @@ parse_args(<<s[i]>>)
                              ELSE parse_args(original)
                      r == render_inline(inline_name(s[i]), args, original, depth + 1)
                  IN  SubInlines(block, s, e + 1,
                          [text |-> acc.text \o r.text,
                           log |-> acc.log \cup r.log
                                   \cup {[kind |-> "expand", depth |-> depth,
                                          caller |-> depth, unchanged |-> FALSE]}],
                          depth)

\* _process_recursive
process_recursive(s, depth) ==
    IF AtDepthLimit(depth) THEN [text |-> s, log |-> {}]
    ELSE LET blocks == SubInlines(TRUE, s, 1, [text |-> <<>>, log |-> {}], depth)
             both == SubInlines(FALSE, blocks.text, 1,
                                [text |-> <<>>, log |-> blocks.log], depth)
         IN  IF MoreInlines(both.text)
             THEN LET r == process_recursive(both.text, depth + 1)
                  IN  [text |-> r.text,
                       log |-> both.log \cup r.log
                               \cup {[kind |-> "call", depth |-> depth + 1,
                                      caller |-> depth,
                                      unchanged |-> r.text = both.text]}]
             ELSE both

\* ------------------------------------- language_filter.py and language.py

\* a tag, whole, is one token
LangEN == "<!-- lang:EN -->"
LangDE == "<!-- lang:DE -->"
LangClose == "<!-- /lang -->"

LangOpeners == {LangEN, LangDE}

LangTags == LangOpeners \cup {LangClose}

\* match.group(1)
block_lang(opener) == IF opener = LangEN THEN "EN" ELSE "DE"

\* lang_pattern at position i: an opening tag, lazily any text, the first
\* closing tag; the position of that tag, 0 when the pattern does not match
LangMatchEnd(s, i) ==
    IF s[i] \in LangOpeners /\ \E j \in (i + 1)..Len(s) : s[j] = LangClose
    THEN Least({j \in (i + 1)..Len(s) : s[j] = LangClose})
    ELSE 0

\* a filter that keeps the body of every block, whatever its code
ReplaceLangBlockAnyCode(block_code, block_content, language) == block_content

\* replace_lang_block
replace_lang_block(block_code, block_content, language) ==
    IF block_code = language THEN block_content ELSE <<>>

\* lang_pattern.sub(replace_lang_block, content)
RECURSIVE LangSub(_, _, _, _)
LangSub(s, i, out, language) ==
    IF i > Len(s) THEN out
    ELSE LET e == LangMatchEnd(s, i)
         IN  IF e = 0 THEN LangSub(s, i + 1, Append(out, s[i]), language)
             ELSE LangSub(s, e + 1,
                          out \o replace_lang_block(block_lang(s[i]),
                                                    SubSeq(s, i + 1, e - 1), language),
                          language)

\* LanguageFilter.filter_for_language
filter_for_language(s, language) == LangSub(s, 1, <<>>, language)

\* re.sub(r'\n\n\n+', '\n\n', result)
RECURSIVE CollapseNewlines(_)
CollapseNewlines(s) ==
    IF s = <<>> THEN <<>>
    ELSE IF Len(s) >= 3 /\ s[1] = Newline /\ s[2] = Newline /\ s[3] = Newline
    THEN <<Newline, Newline>> \o CollapseNewlines(StripLeft(s))
    ELSE <<Head(s)>> \o CollapseNewlines(Tail(s))

\* language.filter_content_by_language: shield, filter, restore, clean up
filter_content_by_language(s, target_lang) ==
    LET shielded == extract_code_blocks(s)
        replaced == LangSub(shielded.text, 1, <<>>, target_lang)
        collapsed == CollapseNewlines(restore_code_blocks(replaced, shielded.blocks))
        stripped == StripNewlines(collapsed)
    IN  IF stripped # <<>> THEN Append(stripped, Newline) ELSE <<>>

\* ------------------------------------------------ content/markdown_parser.py

\* a markdown text is a sequence of lines, each with its newline: a blank
\* line, a line of text, a fence (three backticks), a heading, a directive
BlankLine == "\n"
TextLine == "x\n"
FenceLine == "FENCE\n"
H1Line == "# A\n"
H2Line == "## B\n"
LandscapeLine == "<!-- landscape -->\n"
PortraitLine == "<!-- portrait -->\n"
AddendumLine == "<!-- addendum -->\n"
NotocLine == "<!-- notoc -->\n"

\* the lines HEADING_PATTERN matches
HeadingLines == {H1Line, H2Line}

\* the lines DIRECTIVE_PATTERN matches
DirectiveLines == {LandscapeLine, PortraitLine, AddendumLine, NotocLine}

\* len(heading_match.group(1))
heading_level(line) == IF line = H1Line THEN 1 ELSE 2

\* _is_in_code_block: an odd number of fences in text[:position]
is_in_code_block(text, position) ==
    Cardinality({j \in 1..(position - 1) : text[j] = FenceLine}) % 2 = 1

\* all_headings filtered: the positions of the headings outside code, in order
RECURSIVE HeadingsFrom(_, _)
HeadingsFrom(text, p) ==
    IF p > Len(text) THEN <<>>
    ELSE (IF text[p] \in HeadingLines /\ ~is_in_code_block(text, p) THEN <<p>> ELSE <<>>)
         \o HeadingsFrom(text, p + 1)

\* a parser whose window starts at the start of the document for every heading
DirectivesStartOfDocument(hs, i) == 0

\* directives_start: headings[i - 1].end() if i > 0 else 0; the position of
\* the line that holds the end of the previous heading
directives_start(hs, i) == IF i > 1 THEN hs[i - 1] ELSE 0

\* directives_text, cut at the last "\n\n" when there is one: the lines of
\* the window, from the last blank line that follows a newline (the newline
\* of the line before it, or of the previous heading)
directives_text(text, hs, i) ==
    LET start == directives_start(hs, i)
        window == SubSeq(text, start + 1, hs[i] - 1)
        found == {k \in 1..Len(window) : window[k] = BlankLine /\ (k > 1 \/ start > 0)}
    IN  IF found # {}
        THEN SubSeq(window, CHOOSE k \in found : \A j \in found : j <= k, Len(window))
        ELSE window

\* the loop over directive_matches
RECURSIVE ApplyDirectives(_, _)
ApplyDirectives(lines, acc) ==
    IF lines = <<>> THEN acc
    ELSE LET d == Head(lines)
             next == CASE d = LandscapeLine -> [acc EXCEPT !.orientation = "landscape"]
                       [] d = PortraitLine -> [acc EXCEPT !.orientation = "portrait"]
                       [] d = AddendumLine -> [acc EXCEPT !.is_addendum = TRUE]
                       [] d = NotocLine -> [acc EXCEPT !.exclude_from_toc = TRUE]
                       [] OTHER -> acc
         IN  ApplyDirectives(Tail(lines), next)

\* the keyword arguments of Section(...), without title and content
Section(heading, flags) ==
    [level |-> IF flags.is_addendum THEN 0 ELSE heading_level(heading),
     orientation |-> flags.orientation,
     exclude_from_toc |-> flags.exclude_from_toc]

\* MarkdownDocumentParser.parse_string
parse_string(text) ==
    LET hs == HeadingsFrom(text, 1)
    IN  [i \in 1..Len(hs) |->
            Section(text[hs[i]],
                    ApplyDirectives(directives_text(text, hs, i),
                                    [orientation |-> "portrait", is_addendum |-> FALSE,
                                     exclude_from_toc |-> FALSE]))]

\* ----------------------------------------------------------------- initial

ShieldIdle ==
    /\ content = <<>>
    /\ protected_content = <<>>
    /\ code_blocks = <<>>
    /\ restored = <<>>
    /\ shield_pc = "idle"

NumInit ==
    /\ counters = NewNumberer.counters
    /\ addendum_counter = NewNumberer.addendum_counter
    /\ returned = ""
    /\ arg_level = 0
    /\ num_op = "init"
    /\ num_calls = <<>>
    /\ num_returned = <<>>
    /\ addenda_numbered = 0
    /\ after_reset = FALSE
    /\ reset_dirty = FALSE
    /\ fresh = NewNumberer
    /\ fresh_returned = ""

DocInit ==
    /\ sections = <<>>
    /\ numbered = FALSE
    /\ html = <<>>
    /\ doc_op = "init"
    /\ cleared = FALSE
    /\ clear_dirty = FALSE

TocInit ==
    /\ toc_headings = <<>>
    /\ toc_lines = <<>>
    /\ toc_pc = "idle"

IdsInit ==
    /\ html_content = <<>>
    /\ modified_html = <<>>
    /\ headings = <<>>
    /\ ids_pc = "idle"
    /\ toc_marker = FALSE
    /\ result = [toc |-> <<>>, body |-> <<>>]

ParserIdle ==
    /\ base_dir = [a |-> <<>>, p |-> [raises |-> FALSE, stdout |-> <<>>], c |-> 0]
    /\ allow_python = FALSE
    /\ input_content = <<>>
    /\ md_content = <<>>
    /\ iteration = 0
    /\ pm_pc = "idle"
    /\ error = None
    /\ written = {}
    /\ executed = 0

InlineIdle ==
    /\ inlines_dir = [t |-> <<>>]
    /\ max_depth = 0
    /\ ip_content = <<>>
    /\ ip_result = [text |-> <<>>, log |-> {}]
    /\ ip_pc = "idle"

TemplateIdle ==
    /\ tpl_template = <<>>
    /\ tpl_args = <<>>
    /\ tpl_rendered = <<>>
    /\ tpl_pc = "idle"

LangIdle ==
    /\ lf_content = <<>>
    /\ lf_language = ""
    /\ lf_filtered = <<>>
    /\ lf_pc = "idle"

MdIdle ==
    /\ markdown_content = <<>>
    /\ parsed = <<>>
    /\ mdp_pc = "idle"

CodeIdle ==
    /\ cs_pre = <<>>
    /\ cs_span = <<>>
    /\ cs_post = <<>>
    /\ cs_language = ""
    /\ cs_out = [text |-> <<>>, found |-> FALSE]
    /\ cs_pc = "idle"

CacheIdle ==
    /\ template_cache = <<>>
    /\ template_files = <<>>
    /\ lt_name = ""
    /\ lt_returned = <<>>
    /\ lt_first = <<>>
    /\ lt_pc = "idle"

LaterIdle == ParserIdle /\ InlineIdle /\ TemplateIdle /\ LangIdle /\ MdIdle /\ CodeIdle /\ CacheIdle

\* the modules before parser.py, not called
EarlierIdle == ShieldIdle /\ NumInit /\ DocInit /\ TocInit /\ IdsInit

earlierVars == <<shieldVars, numVars, numGhostVars, docVars, tocVars, idsVars>>

\* all but the state of parser.py, and all but the state of commands.py
otherThanParser == <<earlierVars, inlineVars, templateVars, langVars, mdVars, codeVars, cacheVars>>
otherThanInline == <<earlierVars, parserVars, templateVars, langVars, mdVars, codeVars, cacheVars>>
otherThanTemplate == <<earlierVars, parserVars, inlineVars, langVars, mdVars, codeVars, cacheVars>>
otherThanLang == <<earlierVars, parserVars, inlineVars, templateVars, mdVars, codeVars, cacheVars>>
otherThanMd == <<earlierVars, parserVars, inlineVars, templateVars, langVars, codeVars, cacheVars>>
otherThanCode == <<earlierVars, parserVars, inlineVars, templateVars, langVars, mdVars, cacheVars>>
otherThanCache == <<earlierVars, parserVars, inlineVars, templateVars, langVars, mdVars, codeVars>>

\* --------------------------------------------------------- the code shield

InitShield ==
    /\ content \in Texts(MaxLen)
    /\ protected_content = <<>>
    /\ code_blocks = <<>>
    /\ restored = <<>>
    /\ shield_pc = "input"
    /\ NumInit
    /\ DocInit
    /\ TocInit
    /\ IdsInit
    /\ LaterIdle

ExtractCodeBlocks ==
    /\ shield_pc = "input"
    /\ LET r == extract_code_blocks(content)
       IN  /\ protected_content' = r.text
           /\ code_blocks' = r.blocks
    /\ shield_pc' = "extracted"
    /\ UNCHANGED <<content, restored, numVars, numGhostVars, docVars, tocVars, idsVars, laterVars>>

RestoreCodeBlocks ==
    /\ shield_pc = "extracted"
    /\ restored' = restore_code_blocks(protected_content, code_blocks)
    /\ shield_pc' = "restored"
    /\ UNCHANGED <<content, protected_content, code_blocks>>
    /\ UNCHANGED <<numVars, numGhostVars, docVars, tocVars, idsVars, laterVars>>

NextShield == ExtractCodeBlocks \/ RestoreCodeBlocks

SpecShield == InitShield /\ [][NextShield]_vars

\* ------------------------------------------------------------ the numberer

InitNum == ShieldIdle /\ NumInit /\ DocInit /\ TocInit /\ IdsInit /\ LaterIdle

\* numberer.number_section(Section(level=level, ...))
NumberSection(level) ==
    /\ IF level = 0 THEN addenda_numbered < MaxAddenda
       ELSE Len(num_calls) < MaxNumeric
    /\ LET r == number_section(Numberer, level)
           f == number_section(fresh, level)
       IN  /\ counters' = r.counters
           /\ addendum_counter' = r.addendum_counter
           /\ returned' = r.number
           /\ IF level = 0
              THEN /\ addenda_numbered' = addenda_numbered + 1
                   /\ UNCHANGED <<num_calls, num_returned>>
              ELSE /\ num_calls' = Append(num_calls, [level |-> level, parts |-> r.parts])
                   /\ num_returned' = Append(num_returned, r.number)
                   /\ UNCHANGED addenda_numbered
           /\ IF after_reset
              THEN /\ fresh' = [counters |-> f.counters,
                                addendum_counter |-> f.addendum_counter]
                   /\ fresh_returned' = f.number
              ELSE UNCHANGED <<fresh, fresh_returned>>
    /\ arg_level' = level
    /\ num_op' = "number_section"
    /\ UNCHANGED <<after_reset, reset_dirty, shieldVars, docVars, tocVars, idsVars, laterVars>>

\* numberer.reset()
Reset ==
    /\ LET r == reset(Numberer)
       IN  /\ counters' = r.counters
           /\ addendum_counter' = r.addendum_counter
    /\ num_op' = "reset"
    /\ after_reset' = TRUE
    /\ reset_dirty' = (num_calls # <<>> \/ addenda_numbered > 0)
    /\ fresh' = NewNumberer
    /\ fresh_returned' = ""
    /\ num_calls' = <<>>
    /\ num_returned' = <<>>
    /\ addenda_numbered' = 0
    /\ UNCHANGED <<returned, arg_level, shieldVars, docVars, tocVars, idsVars, laterVars>>

NextNum == (\E level \in 0..3 : NumberSection(level)) \/ Reset

SpecNum == InitNum /\ [][NextNum]_vars

\* ------------------------------------------------------------ the Document

InitDoc == ShieldIdle /\ NumInit /\ DocInit /\ TocInit /\ IdsInit /\ LaterIdle

\* as AddSection, but the section is numbered as soon as it is added
AddSectionEager(level, number) ==
    /\ Len(sections) < MaxSections
    /\ LET r == number_section(Numberer, level)
       IN  /\ sections' = Append(sections,
                  [level |-> level,
                   number |-> IF number = None THEN Some(r.number) ELSE number,
                   manual |-> number # None])
           /\ counters' = IF number = None THEN r.counters ELSE counters
           /\ addendum_counter' =
                  IF number = None THEN r.addendum_counter ELSE addendum_counter
    /\ numbered' = FALSE
    /\ doc_op' = "add_section"
    /\ html' = <<>>
    /\ UNCHANGED <<cleared, clear_dirty, shieldVars, numGhostVars, tocVars, idsVars, laterVars>>

\* Document.add_section(level, title, content, number)
AddSection(level, number) ==
    /\ Len(sections) < MaxSections
    /\ sections' = Append(sections,
           [level |-> level, number |-> number, manual |-> number # None])
    /\ numbered' = FALSE
    /\ doc_op' = "add_section"
    /\ html' = <<>>
    /\ UNCHANGED <<cleared, clear_dirty, numVars, shieldVars, numGhostVars, tocVars, idsVars, laterVars>>

\* Document.build_html: _ensure_numbered, then the sections are rendered
BuildHtml ==
    /\ LET r == ensure_numbered(sections, numbered, Numberer)
       IN  /\ sections' = r.sections
           /\ counters' = r.numberer.counters
           /\ addendum_counter' = r.numberer.addendum_counter
           /\ html' = [i \in 1..Len(r.sections) |->
                          [level |-> r.sections[i].level,
                           number |-> r.sections[i].number[1]]]
    /\ numbered' = TRUE
    /\ doc_op' = "build_html"
    /\ UNCHANGED <<cleared, clear_dirty, shieldVars, numGhostVars, tocVars, idsVars, laterVars>>

\* as ClearSections, but the numberer is left as it is
ClearSectionsKeepNumberer ==
    /\ sections' = <<>>
    /\ numbered' = FALSE
    /\ doc_op' = "clear_sections"
    /\ cleared' = TRUE
    /\ clear_dirty' = (Numberer # NewNumberer)
    /\ html' = <<>>
    /\ UNCHANGED <<numVars, shieldVars, numGhostVars, tocVars, idsVars, laterVars>>

\* Document.clear_sections
ClearSections ==
    /\ sections' = <<>>
    /\ LET r == reset(Numberer)
       IN  /\ counters' = r.counters
           /\ addendum_counter' = r.addendum_counter
    /\ numbered' = FALSE
    /\ doc_op' = "clear_sections"
    /\ cleared' = TRUE
    /\ clear_dirty' = (Numberer # NewNumberer)
    /\ html' = <<>>
    /\ UNCHANGED <<shieldVars, numGhostVars, tocVars, idsVars, laterVars>>

NextDoc ==
    \/ \E level \in 0..3, number \in {None} \cup {Some(m) : m \in ManualNumbers} :
           AddSection(level, number)
    \/ BuildHtml
    \/ ClearSections

SpecDoc == InitDoc /\ [][NextDoc]_vars

\* ------------------------------------------------------------ the TOC list

\* the heading lists of up to n headings of the levels 1..6; the i-th heading
\* has the id h<i>
HeadingLists(n) ==
    UNION {{[i \in 1..k |-> [level |-> ls[i], id |-> "h" \o ToString(i),
                              text |-> <<"f", "o", "o">>]] :
               ls \in [1..k -> 1..6]} : k \in 0..n}

InitToc ==
    /\ ShieldIdle /\ NumInit /\ DocInit /\ IdsInit /\ LaterIdle
    /\ toc_headings \in HeadingLists(MaxHeadings)
    /\ toc_lines = <<>>
    /\ toc_pc = "input"

BuildTocHtml ==
    /\ toc_pc = "input"
    /\ toc_lines' = build_toc_html(toc_headings)
    /\ toc_pc' = "built"
    /\ UNCHANGED <<toc_headings, shieldVars, numVars, numGhostVars, docVars, idsVars, laterVars>>

NextToc == BuildTocHtml

SpecToc == InitToc /\ [][NextToc]_vars

\* ------------------------------------------------------------- heading ids

HeadingTexts ==
    {<<"F", "o", "o">>,
     <<"<em>", "f", "o", "o", "</em>", "!">>,
     <<"-", "f", "o", "o", " ", "-", " ", "1", "-">>,
     <<"!">>}

SourceIds == {None, Some("foo")}

HeadingNodes ==
    [kind : {"heading"}, level : {1, 2}, id : SourceIds, text : HeadingTexts]

\* the toc:exclude comment at the start of a line; it has the fields of a
\* heading so that the nodes of a document compare
ExcludeNode == [kind |-> "toc_exclude", level |-> 0, id |-> None, text |-> <<>>]

Documents(n) == UNION {[1..k -> HeadingNodes \cup {ExcludeNode}] : k \in 0..n}

InitIds ==
    /\ ShieldIdle /\ NumInit /\ DocInit /\ TocInit /\ LaterIdle
    /\ html_content \in Documents(MaxNodes)
    /\ modified_html = <<>>
    /\ headings = <<>>
    /\ ids_pc = "input"
    /\ toc_marker = FALSE
    /\ result = [toc |-> <<>>, body |-> <<>>]

ExtractHeadings ==
    /\ ids_pc = "input"
    /\ LET r == extract_headings(html_content)
       IN  /\ modified_html' = r.modified_html
           /\ headings' = r.headings
    /\ ids_pc' = "extracted"
    /\ UNCHANGED <<html_content, toc_marker, result>>
    /\ UNCHANGED <<shieldVars, numVars, numGhostVars, docVars, tocVars, laterVars>>

ProcessToc(marker) ==
    /\ ids_pc = "input"
    /\ toc_marker' = marker
    /\ result' = process_toc(marker, html_content)
    /\ LET r == extract_headings(html_content)
       IN  /\ modified_html' = IF marker THEN r.modified_html ELSE <<>>
           /\ headings' = IF marker THEN r.headings ELSE <<>>
    /\ ids_pc' = "processed"
    /\ UNCHANGED html_content
    /\ UNCHANGED <<shieldVars, numVars, numGhostVars, docVars, tocVars, laterVars>>

NextIds == ExtractHeadings \/ (\E marker \in BOOLEAN : ProcessToc(marker))

SpecIds == InitIds /\ [][NextIds]_vars

\* ----------------------------------------------------------- parse_markdown

MdTokens == {"x", Backtick, InlineA, InlineMissing, InlinePy, MalformedInline}

MdTexts(n) == UNION {[1..k -> MdTokens] : k \in 0..n}

\* the texts of a.md: up to two tokens with at most one directive to the
\* file itself, or the directive followed by one to the missing file
FileBodies ==
    {<<>>, <<"x">>, <<Backtick>>, <<InlineA>>,
     <<"x", InlineA>>, <<InlineA, "x">>, <<Backtick, InlineA>>, <<InlineA, Backtick>>,
     <<InlineA, InlineMissing>>}

\* what exec of p.py does: it raises, or it prints the text stdout
PyFiles ==
    {[raises |-> TRUE, stdout |-> <<>>],
     [raises |-> FALSE, stdout |-> <<"x">>],
     [raises |-> FALSE, stdout |-> <<InlinePy>>]}

InitParser ==
    /\ EarlierIdle /\ InlineIdle /\ TemplateIdle /\ LangIdle /\ MdIdle /\ CodeIdle /\ CacheIdle
    /\ base_dir \in [a : FileBodies, p : PyFiles, c : {0}]
    /\ allow_python \in BOOLEAN
    \* what p.py would do is of no account when it may not run
    /\ ~allow_python => base_dir.p.raises
    /\ input_content \in MdTexts(MaxContent)
    /\ md_content = input_content
    /\ iteration = 0
    /\ pm_pc = "expanding"
    /\ error = None
    /\ written = {}
    /\ executed = 0

\* the loop test with a budget of one pass less
LoopTestOneLess == has_directives(md_content) /\ iteration < MAX_ITERATIONS - 1

\* the loop test of process_directives_iteratively
LoopTest == has_directives(md_content) /\ iteration < MAX_ITERATIONS

\* one pass of the while loop; an exception of process_inlines leaves
\* process_directives_iteratively, preprocess_document and parse_markdown
ExpansionPass ==
    /\ pm_pc = "expanding"
    /\ LoopTest
    /\ iteration' = iteration + 1
    /\ LET r == process_inlines(md_content, base_dir, allow_python)
       IN  /\ executed' = executed + r.ran
           /\ IF r.error # None
              THEN /\ error' = r.error
                   /\ pm_pc' = "raised"
                   /\ UNCHANGED md_content
              ELSE /\ md_content' = r.text
                   /\ UNCHANGED <<error, pm_pc>>
    /\ UNCHANGED <<base_dir, allow_python, input_content, written, otherThanParser>>

\* after the loop: content is returned whatever is left in it
ExpansionEndReturns ==
    /\ pm_pc = "expanding"
    /\ ~LoopTest
    /\ pm_pc' = "returned"
    /\ UNCHANGED <<base_dir, allow_python, input_content, md_content, iteration, error,
                   written, executed, otherThanParser>>

\* after the loop: raise ValueError or return content
ExpansionEnd ==
    /\ pm_pc = "expanding"
    /\ ~LoopTest
    /\ IF iteration >= MAX_ITERATIONS /\ has_directives(md_content)
       THEN /\ error' = Some("ValueError: Max iterations exceeded")
            /\ pm_pc' = "raised"
       ELSE /\ pm_pc' = "returned"
            /\ UNCHANGED error
    /\ UNCHANGED <<base_dir, allow_python, input_content, md_content, iteration, written, executed, otherThanParser>>

\* the intermediate Markdown is written while the directives are expanded
WriteIntermediateMdEarly ==
    /\ pm_pc = "expanding"
    /\ written' = written \cup {"intermediate.md"}
    /\ UNCHANGED <<pm_pc, base_dir, allow_python, input_content, md_content, iteration, error, executed, otherThanParser>>

\* _generate_single_pdf: the intermediate Markdown is written
WriteIntermediateMd ==
    /\ pm_pc = "returned"
    /\ written' = written \cup {"intermediate.md"}
    /\ pm_pc' = "md_written"
    /\ UNCHANGED <<base_dir, allow_python, input_content, md_content, iteration, error, executed, otherThanParser>>

\* _generate_single_pdf: the HTML is written
WriteHtml ==
    /\ pm_pc = "md_written"
    /\ written' = written \cup {"html"}
    /\ pm_pc' = "html_written"
    /\ UNCHANGED <<base_dir, allow_python, input_content, md_content, iteration, error, executed, otherThanParser>>

\* _generate_single_pdf: html_to_pdf, then the intermediate files are removed
\* unless keep_intermediate
WritePdf(keep_intermediate) ==
    /\ pm_pc = "html_written"
    /\ written' = IF keep_intermediate THEN written \cup {"pdf"} ELSE {"pdf"}
    /\ pm_pc' = "done"
    /\ UNCHANGED <<base_dir, allow_python, input_content, md_content, iteration, error, executed, otherThanParser>>

NextParser ==
    \/ ExpansionPass
    \/ ExpansionEnd
    \/ WriteIntermediateMd
    \/ WriteHtml
    \/ \E keep_intermediate \in BOOLEAN : WritePdf(keep_intermediate)

SpecParser == InitParser /\ [][NextParser]_vars

\* ------------------------------------------------- a chain of inline files

\* the documents: the first three inline c1.md outside code, the others have
\* no inline directive outside code
ChainDocuments ==
    {<<ChainDirective(1)>>, <<"x", ChainDirective(1)>>,
     <<Backtick, InlineA, Backtick, ChainDirective(1)>>,
     <<>>, <<"x">>, <<Backtick, ChainDirective(1), Backtick>>,
     <<Backtick, Backtick, Backtick, Newline, ChainDirective(1), Newline,
       Backtick, Backtick, Backtick>>}

\* parse_markdown on a base_dir with the chain c1.md .. ck.md
InitChain ==
    /\ EarlierIdle /\ InlineIdle /\ TemplateIdle /\ LangIdle /\ MdIdle /\ CodeIdle /\ CacheIdle
    /\ base_dir \in [a : {<<"y">>}, p : {[raises |-> TRUE, stdout |-> <<>>]},
                     c : 1..MaxChain]
    /\ allow_python \in BOOLEAN
    /\ input_content \in ChainDocuments
    /\ md_content = input_content
    /\ iteration = 0
    /\ pm_pc = "expanding"
    /\ error = None
    /\ written = {}
    /\ executed = 0

SpecChain == InitChain /\ [][NextParser]_vars

\* --------------------------------------------------------- InlineProcessor

InlineTokens == {"x", SelfClosingT, SelfClosingM, BlockOpenT, BlockOpenM, BlockClose}

InlineTexts(n) == UNION {[1..k -> InlineTokens] : k \in 0..n}

\* the texts of t.md: plain, with placeholders, with a directive to itself,
\* to the missing template, and a block to itself around the content
TemplateTexts ==
    {<<"x">>, <<"{{a}}", "{{content}}">>, <<"x", "{{a}}", "{{a}}">>,
     <<"x", SelfClosingT>>, <<SelfClosingM>>,
     <<BlockOpenT, "{{content}}", BlockClose>>, <<"{{content}}", SelfClosingT>>}

InitInline ==
    /\ EarlierIdle /\ ParserIdle /\ TemplateIdle /\ LangIdle /\ MdIdle /\ CodeIdle /\ CacheIdle
    /\ inlines_dir \in [t : TemplateTexts]
    /\ max_depth \in 0..MaxDepth
    /\ ip_content \in InlineTexts(MaxInline)
    /\ ip_result = [text |-> <<>>, log |-> {}]
    /\ ip_pc = "input"

\* InlineProcessor.process
Process ==
    /\ ip_pc = "input"
    /\ ip_result' = process_recursive(ip_content, 0)
    /\ ip_pc' = "processed"
    /\ UNCHANGED <<inlines_dir, max_depth, ip_content, otherThanInline>>

NextInline == Process

SpecInline == InitInline /\ [][NextInline]_vars

\* ---------------------------------------------------------- the placeholders

TemplateTokens == {"x", "{{a}}", "{{b}}"}

\* the templates and included files
Templates(n) == UNION {[1..k -> TemplateTokens] : k \in 0..n}

ArgNames == {"a", "b", "c"}

ArgValues == {<<"v">>, <<"w", "w">>}

\* the arguments of a directive: some of the names, each with a value
ArgMaps == UNION {[names -> ArgValues] : names \in SUBSET ArgNames}

InitTemplate ==
    /\ EarlierIdle /\ ParserIdle /\ InlineIdle /\ LangIdle /\ MdIdle /\ CodeIdle /\ CacheIdle
    /\ tpl_template \in Templates(MaxTemplate)
    /\ tpl_args \in ArgMaps
    /\ tpl_rendered = <<>>
    /\ tpl_pc = "input"

\* InlineProcessor._render_inline: rendered = var_pattern.sub(replace_var, template)
RenderInline ==
    /\ tpl_pc = "input"
    /\ tpl_rendered' = substitute(tpl_template, tpl_args)
    /\ tpl_pc' = "rendered"
    /\ UNCHANGED <<tpl_template, tpl_args, otherThanTemplate>>

\* process_inlines.replace_inline: the loop over args.items()
ReplaceInline ==
    /\ tpl_pc = "input"
    /\ tpl_rendered' = fill_placeholders(tpl_template, tpl_args, <<"a", "b", "c">>)
    /\ tpl_pc' = "inlined"
    /\ UNCHANGED <<tpl_template, tpl_args, otherThanTemplate>>

NextTemplate == RenderInline \/ ReplaceInline

SpecTemplate == InitTemplate /\ [][NextTemplate]_vars

\* ---------------------------------------------------------- language filter

\* the pieces a document is made of: a character, a tag by itself, or a whole
\* block ("e" and "d" stand for the English and the German text)
Segments ==
    {<<"x">>, <<Newline>>, <<Backtick>>, <<LangEN>>, <<LangDE>>, <<LangClose>>,
     <<LangEN, "e", LangClose>>, <<LangDE, "d", LangClose>>}

RECURSIVE LangTexts(_)
LangTexts(n) ==
    IF n = 0 THEN {<<>>}
    ELSE LangTexts(n - 1) \cup {t \o g : t \in LangTexts(n - 1), g \in Segments}

Languages == {"EN", "en"}

InitLang ==
    /\ EarlierIdle /\ ParserIdle /\ InlineIdle /\ TemplateIdle /\ MdIdle /\ CodeIdle /\ CacheIdle
    /\ lf_content \in LangTexts(MaxSegments)
    /\ lf_language \in Languages
    /\ lf_filtered = <<>>
    /\ lf_pc = "input"

\* LanguageFilter.filter_for_language
FilterForLanguage ==
    /\ lf_pc = "input"
    /\ lf_filtered' = filter_for_language(lf_content, lf_language)
    /\ lf_pc' = "filtered"
    /\ UNCHANGED <<lf_content, lf_language, otherThanLang>>

\* language.filter_content_by_language
FilterContentByLanguage ==
    /\ lf_pc = "input"
    /\ lf_filtered' = filter_content_by_language(lf_content, lf_language)
    /\ lf_pc' = "split"
    /\ UNCHANGED <<lf_content, lf_language, otherThanLang>>

NextLang == FilterForLanguage \/ FilterContentByLanguage

SpecLang == InitLang /\ [][NextLang]_vars

\* ------------------------------------------------- MarkdownDocumentParser

MdLines == {BlankLine, TextLine, FenceLine} \cup HeadingLines \cup DirectiveLines

MarkdownTexts(n) == UNION {[1..k -> MdLines] : k \in 0..n}

InitMd ==
    /\ EarlierIdle /\ ParserIdle /\ InlineIdle /\ TemplateIdle /\ LangIdle /\ CodeIdle /\ CacheIdle
    /\ markdown_content \in MarkdownTexts(MaxLines)
    /\ parsed = <<>>
    /\ mdp_pc = "input"

\* MarkdownDocumentParser.parse_string
ParseString ==
    /\ mdp_pc = "input"
    /\ parsed' = parse_string(markdown_content)
    /\ mdp_pc' = "parsed"
    /\ UNCHANGED <<markdown_content, otherThanMd>>

NextMd == ParseString

SpecMd == InitMd /\ [][NextMd]_vars

\* --------------------------------------------------- directives inside code

\* the directives and tags put inside the code span
CodeDirectives == {InlineA, LangEN, LangClose}

\* the code spans around d: one backtick, two backticks, two backticks inside
\* one backtick, and a fenced block
CodeSpans(d) ==
    {<<Backtick, d, Backtick>>,
     <<Backtick, Backtick, d, Backtick, Backtick>>,
     <<Backtick, "x", Backtick, Backtick, d, Backtick, Backtick, "x", Backtick>>,
     <<Backtick, Backtick, Backtick, Newline, d, Newline, Backtick, Backtick, Backtick>>}

\* the lines before the code span and the lines after it
LinesBefore ==
    {<<>>, <<"x", Newline>>, <<InlineA, Newline>>, <<LangEN, Newline>>, <<LangDE, Newline>>}

LinesAfter == {<<>>, <<Newline, "x">>, <<Newline, InlineA>>, <<Newline, LangClose>>}

\* the document
CodeDocument == cs_pre \o cs_span \o cs_post

\* base_dir: a.md holds plain text, p.py is not used
CodeBaseDir == [a |-> <<"y">>, p |-> [raises |-> TRUE, stdout |-> <<>>], c |-> 0]

InitCode ==
    /\ EarlierIdle /\ ParserIdle /\ InlineIdle /\ TemplateIdle /\ LangIdle /\ MdIdle /\ CacheIdle
    /\ cs_pre \in LinesBefore
    /\ cs_span \in UNION {CodeSpans(d) : d \in CodeDirectives}
    /\ cs_post \in LinesAfter
    /\ cs_language \in {"EN", "DE"}
    /\ cs_out = [text |-> <<>>, found |-> FALSE]
    /\ cs_pc = "input"

\* process_inlines(content, base_dir, allow_python=False)
ProcessInlines ==
    /\ cs_pc = "input"
    /\ cs_out' = [text |-> process_inlines(CodeDocument, CodeBaseDir, FALSE).text,
                  found |-> FALSE]
    /\ cs_pc' = "inlined"
    /\ UNCHANGED <<cs_pre, cs_span, cs_post, cs_language, otherThanCode>>

\* has_directives(content)
HasDirectives ==
    /\ cs_pc = "input"
    /\ cs_out' = [text |-> <<>>, found |-> has_directives(CodeDocument)]
    /\ cs_pc' = "scanned"
    /\ UNCHANGED <<cs_pre, cs_span, cs_post, cs_language, otherThanCode>>

\* filter_content_by_language(content, target_lang)
FilterCodeByLanguage ==
    /\ cs_pc = "input"
    /\ cs_out' = [text |-> filter_content_by_language(CodeDocument, cs_language),
                  found |-> FALSE]
    /\ cs_pc' = "filtered"
    /\ UNCHANGED <<cs_pre, cs_span, cs_post, cs_language, otherThanCode>>

NextCode == ProcessInlines \/ HasDirectives \/ FilterCodeByLanguage

SpecCode == InitCode /\ [][NextCode]_vars

\* ------------------------------------------------------ the template cache

\* the names _load_template is called with
TemplateNames == {"t", "u"}

\* inlines/<name>.md: missing, present but not readable as text, or a text
TemplateFiles ==
    {[exists |-> FALSE, raises |-> FALSE, text |-> <<>>],
     [exists |-> TRUE, raises |-> TRUE, text |-> <<>>]}
    \cup {[exists |-> TRUE, raises |-> FALSE, text |-> t] : t \in {<<>>, <<"x">>, <<"y">>}}

\* _load_template without the cache test: the file is read on every call
load_template_from_file(cache, files, name) ==
    IF ~files[name].exists \/ files[name].raises
    THEN [returned |-> None, cache |-> cache]
    ELSE [returned |-> Some(files[name].text),
          cache |-> (name :> files[name].text) @@ cache]

\* _load_template on the processor's cache and the files under inlines/:
\* what it returns and the cache after the call
load_template_cached(cache, files, name) ==
    IF name \in DOMAIN cache
    THEN [returned |-> Some(cache[name]), cache |-> cache]
    ELSE IF ~files[name].exists
    THEN [returned |-> None, cache |-> cache]
    ELSE IF files[name].raises
    THEN [returned |-> None, cache |-> cache]
    ELSE [returned |-> Some(files[name].text),
          cache |-> (name :> files[name].text) @@ cache]

\* InlineProcessor(base_dir): the cache is empty, the files are any
InitCache ==
    /\ EarlierIdle /\ ParserIdle /\ InlineIdle /\ TemplateIdle /\ LangIdle /\ MdIdle /\ CodeIdle
    /\ template_cache = [k \in {} |-> <<>>]
    /\ template_files \in [TemplateNames -> TemplateFiles]
    /\ lt_name = ""
    /\ lt_returned = None
    /\ lt_first = [k \in {} |-> <<>>]
    /\ lt_pc = "new"

\* self._load_template(name)
LoadTemplate(name) ==
    /\ LET r == load_template_cached(template_cache, template_files, name)
       IN  /\ template_cache' = r.cache
           /\ lt_returned' = r.returned
           /\ lt_first' = IF name \notin DOMAIN lt_first /\ r.returned # None
                          THEN (name :> r.returned[1]) @@ lt_first
                          ELSE lt_first
    /\ lt_name' = name
    /\ lt_pc' = "loaded"
    /\ UNCHANGED <<template_files, otherThanCache>>

\* between two calls a file under inlines/ is written, made unreadable or
\* removed
ChangeFile(name, file) ==
    /\ template_files[name] # file
    /\ template_files' = [template_files EXCEPT ![name] = file]
    /\ lt_pc' = "changed"
    /\ UNCHANGED <<template_cache, lt_name, lt_returned, lt_first, otherThanCache>>

NextCache ==
    \/ \E name \in TemplateNames : LoadTemplate(name)
    \/ \E name \in TemplateNames, file \in TemplateFiles : ChangeFile(name, file)

SpecCache == InitCache /\ [][NextCache]_vars

\* ------------------------------------------------------------------ claims

Permutations1(n) == {p \in [1..n -> 1..n] : \A a, b \in 1..n : p[a] = p[b] => a = b}

\* C1: restore_code_blocks(extract_code_blocks(s)) = s for every text s, and
\* restoring the placeholders in any other order gives the same text
RoundTrip ==
    shield_pc = "restored" =>
        /\ restored = content
        /\ \A p \in Permutations1(Len(code_blocks)) :
              RestoreIn(protected_content, code_blocks, p) = restored

Levels(calls) == [i \in 1..Len(calls) |-> calls[i].level]

\* C2: number_section on a level L in 1..3 increments counter L, zeroes the
\* deeper counters, keeps the shallower ones and returns the non-zero counters
\* of levels 1..L joined by dots; a new numberer gives 1, 1.1, 1.2, 2 for the
\* levels 1, 2, 2, 1
NumberSectionEffect ==
    /\ []((~after_reset /\ Levels(num_calls) = <<1, 2, 2, 1>>)
             => num_returned = <<"1", "1.1", "1.2", "2">>)
    /\ [][(num_op' = "number_section" /\ arg_level' \in 1..3) =>
             /\ counters'[arg_level'] = counters[arg_level'] + 1
             /\ \A i \in 1..3 :
                   /\ i > arg_level' => counters'[i] = 0
                   /\ i < arg_level' => counters'[i] = counters[i]
             /\ returned' =
                   DotJoin(SelectSeq(SubSeq(counters', 1, arg_level'), Positive))
             /\ addendum_counter' = addendum_counter]_vars

NumberSectionEffectWitness ==
    /\ ~after_reset
    /\ Levels(num_calls) = <<1, 2, 2, 1>>
    /\ returned = "2"
    /\ counters = <<2, 0, 0>>

CapitalLetters ==
    <<"A", "B", "C", "D", "E", "F", "G", "H", "I", "J", "K", "L", "M",
      "N", "O", "P", "Q", "R", "S", "T", "U", "V", "W", "X", "Y", "Z">>

\* C3: the k-th addendum numbered since the last reset gets the k-th capital
\* letter, for k up to 26, whatever numeric sections were numbered before or
\* between, and numbering an addendum leaves the numeric counters unchanged
AddendumLetters ==
    /\ []((num_op = "number_section" /\ arg_level = 0
              /\ addenda_numbered <= Len(CapitalLetters))
             => returned = CapitalLetters[addenda_numbered])
    /\ [][(num_op' = "number_section" /\ arg_level' = 0) => counters' = counters]_vars

AddendumLettersWitness ==
    /\ num_op = "number_section"
    /\ arg_level = 0
    /\ addenda_numbered = 26
    /\ returned = "Z"
    /\ Len(num_calls) >= 2

\* a < b as dotted sequences of integers: the first differing component
\* decides, and a proper prefix is smaller
DottedLess(a, b) ==
    \E k \in 1..(Len(a) + 1) :
        /\ \A i \in 1..(k - 1) : i <= Len(b) /\ a[i] = b[i]
        /\ k <= Len(b)
        /\ (k = Len(a) + 1 \/ a[k] < b[k])

\* the numeric numbers returned since the last reset strictly increase
NumbersIncrease(calls) ==
    \A i, j \in 1..Len(calls) : i < j => DottedLess(calls[i].parts, calls[j].parts)

\* C4 as stated: for levels in 1..3 with jumps of any size, each numeric
\* number returned is greater than every numeric number returned earlier
IncreaseAnyJumps == NumbersIncrease(num_calls)

\* no zero counter was left out of the number of this call
NoCounterDropped(call) == Len(call.parts) = call.level

\* C4 amended: among the numeric numbers from which no zero counter of the
\* levels 1..L was left out, each is greater than every earlier one, for level
\* jumps of any size
IncreaseWhereNoneDropped ==
    \A i, j \in 1..Len(num_calls) :
        (i < j /\ NoCounterDropped(num_calls[i]) /\ NoCounterDropped(num_calls[j]))
            => DottedLess(num_calls[i].parts, num_calls[j].parts)

IncreaseWhereNoneDroppedWitness ==
    /\ Levels(num_calls) = <<1, 3, 2, 3>>
    /\ num_returned = <<"1", "1.1", "1.1", "1.1.1">>

\* the calls start at level 1 and no call is more than one level deeper than
\* the numeric call before it
BoundedJumps(calls) ==
    /\ calls # <<>> => calls[1].level = 1
    /\ \A i \in 2..Len(calls) : calls[i].level <= calls[i - 1].level + 1

\* C5: when the calls start at level 1 and never go more than one level deeper
\* than the previous numeric call, the numbers strictly increase in document
\* order and none is returned twice
IncreaseBoundedJumps ==
    BoundedJumps(num_calls) =>
        /\ NumbersIncrease(num_calls)
        /\ \A i, j \in 1..Len(num_returned) :
              i # j => num_returned[i] # num_returned[j]

IncreaseBoundedJumpsWitness ==
    /\ Levels(num_calls) = <<1, 2, 3, 3, 2>>
    /\ num_returned = <<"1", "1.1", "1.1.1", "1.1.2", "1.2">>
    /\ addenda_numbered > 0

\* C6: after reset() the numberer returns for every call what a newly
\* constructed numberer returns for the same calls
ResetIsFresh ==
    (after_reset /\ num_op = "number_section") => returned = fresh_returned

ResetIsFreshWitness ==
    /\ after_reset
    /\ reset_dirty
    /\ num_op = "number_section"
    /\ addenda_numbered >= 1
    /\ Len(num_calls) >= 2

\* C7 as stated: in a Document the numberer's state changes only when
\* sections are numbered; clear_sections leaves it as it is
NumbererOnlyByNumbering ==
    [][numVars' # numVars => doc_op' = "build_html"]_vars

\* C7 amended: the numberer's state changes only when sections are numbered
\* (build_html) and in clear_sections, which resets it to the state of a new
\* numberer; add_section never changes it
NumbererByNumberingOrClear ==
    [][/\ numVars' # numVars => doc_op' \in {"build_html", "clear_sections"}
       /\ doc_op' = "clear_sections" => Numberer' = NewNumberer]_vars

NumbererByNumberingOrClearWitness ==
    /\ doc_op = "clear_sections"
    /\ clear_dirty
    /\ Numberer = NewNumberer

\* the first section of level 1 that was added without a manual number
FirstAuto1(secs, i) ==
    /\ secs[i].level = 1
    /\ ~secs[i].manual
    /\ \A j \in 1..(i - 1) : ~(secs[j].level = 1 /\ ~secs[j].manual)

\* C8: after clear_sections the document is empty, and the first level-1
\* section added after it (without a manual number) is numbered 1 by
\* build_html, whatever was added or numbered before the clear
ClearRestartsNumbering ==
    /\ doc_op = "clear_sections" => sections = <<>>
    /\ (cleared /\ doc_op = "build_html") =>
           \A i \in 1..Len(sections) :
               FirstAuto1(sections, i) =>
                   /\ sections[i].number = Some("1")
                   /\ html[i].number = "1"

ClearRestartsNumberingWitness ==
    /\ cleared
    /\ clear_dirty
    /\ doc_op = "build_html"
    /\ Len(sections) = 3
    /\ FirstAuto1(sections, 3)
    /\ html[3].number = "1"

Count(lines, tag) == Cardinality({i \in 1..Len(lines) : lines[i].tag = tag})

\* C9: for every sequence of heading levels in 1..6 the result of
\* _build_toc_html has as many <li> as </li> and as many <ul as </ul>
TocTagsBalanced ==
    toc_pc = "built" =>
        /\ Count(toc_lines, "<li>") = Count(toc_lines, "</li>")
        /\ Count(toc_lines, "<ul>") = Count(toc_lines, "</ul>")

\* C10: after _extract_headings no two headings of the document have the
\* same id, whether generated, suffixed or already in the source
HeadingIdsUnique ==
    ids_pc = "extracted" =>
        \A i, j \in 1..Len(modified_html) :
            i # j => modified_html[i].id # modified_html[j].id

\* the positions of the headings of a document, in document order
RECURSIVE HeadingPositions(_, _)
HeadingPositions(source, i) ==
    IF i > Len(source) THEN <<>>
    ELSE IF source[i].kind = "heading"
    THEN <<i>> \o HeadingPositions(source, i + 1)
    ELSE HeadingPositions(source, i + 1)

\* the line before heading i is a toc:exclude comment
DirectiveBefore(source, i) ==
    i - 1 \in 1..Len(source) /\ source[i - 1].kind = "toc_exclude"

\* the TOC entries a body makes when the headings at the positions pos of
\* the source are taken one by one and those behind a directive are left out
RECURSIVE ListedEntries(_, _, _, _)
ListedEntries(source, pos, body, k) ==
    IF k > Len(pos) THEN <<>>
    ELSE IF DirectiveBefore(source, pos[k])
    THEN ListedEntries(source, pos, body, k + 1)
    ELSE <<[level |-> body[k].level, id |-> body[k].id[1],
            text |-> body[k].text]>>
         \o ListedEntries(source, pos, body, k + 1)

\* C11: after _extract_headings every heading of the document, the ones
\* behind a toc:exclude comment included, stands in the body with an id and
\* its level and text; no toc:exclude comment is left in the body; and the
\* heading list holds exactly the headings without the comment, in document
\* order, each with the id it has in the body
ExcludedKeptInBodyOnly ==
    ids_pc = "extracted" =>
        LET pos == HeadingPositions(html_content, 1)
        IN  /\ Len(modified_html) = Len(pos)
            /\ \A k \in 1..Len(pos) :
                  /\ modified_html[k].kind = "heading"
                  /\ modified_html[k].id # None
                  /\ modified_html[k].level = html_content[pos[k]].level
                  /\ modified_html[k].text = html_content[pos[k]].text
            /\ headings = ListedEntries(html_content, pos, modified_html, 1)

\* a heading without an id behind the comment, and a heading without it
ExcludedKeptInBodyOnlyWitness ==
    /\ ids_pc = "extracted"
    /\ Len(html_content) = 3
    /\ html_content[1].kind = "toc_exclude"
    /\ html_content[2].kind = "heading" /\ html_content[2].id = None
    /\ html_content[3].kind = "heading"
    /\ Len(modified_html) = 2
    /\ modified_html[1].id # None
    /\ Len(headings) = 1
    /\ headings[1].text = html_content[3].text

IsEntry(line) == line.tag = "<li>"

\* the numbers the body shows on the headings that have no directive before
\* them, in document order
RECURSIVE ListedNumbers(_, _, _, _)
ListedNumbers(source, pos, body, k) ==
    IF k > Len(pos) THEN <<>>
    ELSE IF DirectiveBefore(source, pos[k])
    THEN ListedNumbers(source, pos, body, k + 1)
    ELSE <<body[k].number>> \o ListedNumbers(source, pos, body, k + 1)

\* the document without its toc:exclude comments and the headings behind them
RECURSIVE WithoutExcluded(_, _)
WithoutExcluded(source, i) ==
    IF i > Len(source) THEN <<>>
    ELSE IF source[i].kind = "toc_exclude" \/ DirectiveBefore(source, i)
    THEN WithoutExcluded(source, i + 1)
    ELSE <<source[i]>> \o WithoutExcluded(source, i + 1)

\* C12: in the result of process_toc on a document with the TOC comment, a
\* heading behind a toc:exclude comment has no number; the other headings
\* carry, in document order, the numbers of the TOC entries; and these are
\* the numbers process_toc gives the document without the excluded headings
NumbersInSync ==
    (ids_pc = "processed" /\ toc_marker) =>
        LET pos == HeadingPositions(html_content, 1)
            entries == SelectSeq(result.toc, IsEntry)
            listed == ListedNumbers(html_content, pos, result.body, 1)
            alone == process_toc(TRUE, WithoutExcluded(html_content, 1))
        IN  /\ \A k \in 1..Len(pos) :
                  DirectiveBefore(html_content, pos[k])
                      => result.body[k].number = None
            /\ Len(listed) = Len(entries)
            /\ \A k \in 1..Len(listed) : listed[k] = Some(entries[k].number)
            /\ listed = [k \in 1..Len(alone.body) |-> alone.body[k].number]

\* the same, for the documents whose headings have no id of their own
NumbersInSyncGeneratedIds ==
    (\A i \in 1..Len(html_content) : html_content[i].id = None) => NumbersInSync

\* the directive d stands in the text s outside code
Active(s, d) ==
    LET protected == extract_code_blocks(s).text
    IN  \E i \in 1..Len(protected) : protected[i] = d

Has(s, c) == \E i \in 1..Len(s) : s[i] = c

\* the content inlines a.md and the text of a.md holds the directive again
SelfReferencing ==
    /\ pm_pc # "idle"
    /\ Active(input_content, InlineA)
    /\ Has(base_dir.a, InlineA)

MaxIterationsError == Some("ValueError: Max iterations exceeded")

\* process_directives_iteratively has raised the max-iterations error after
\* MAX_ITERATIONS passes
RaisedAfterMax ==
    /\ pm_pc = "raised"
    /\ error = MaxIterationsError
    /\ iteration = MAX_ITERATIONS

Expandable(s) ==
    /\ ~Has(s, InlineMissing)
    /\ Has(s, InlinePy) => (allow_python /\ ~base_dir.p.raises)

\* neither the content nor a.md has a backtick, and no directive of them
\* fails to expand
PlainSelfReferencing ==
    /\ SelfReferencing
    /\ ~Has(input_content, Backtick) /\ ~Has(base_dir.a, Backtick)
    /\ Expandable(input_content) /\ Expandable(base_dir.a)

Returned == pm_pc \in {"returned", "md_written", "html_written", "done"}

\* C14: process_directives_iteratively makes at most MAX_ITERATIONS passes,
\* every step of the loop being a pass that is counted or the end of the
\* loop; the text it returns has no inline marker outside code; and when its
\* passes are over with a marker left outside code it has raised, the
\* max-iterations error being raised after MAX_ITERATIONS passes only
DriverBounded ==
    /\ [](iteration <= MAX_ITERATIONS)
    /\ [](Returned => ~has_directives(md_content) /\ error = None)
    /\ [](pm_pc # "expanding" /\ has_directives(md_content) => pm_pc = "raised")
    /\ [](error = MaxIterationsError
            => iteration = MAX_ITERATIONS /\ has_directives(md_content))
    /\ [][pm_pc = "expanding"
            => iteration' = iteration + 1 \/ pm_pc' # "expanding"]_vars

\* a malformed directive is left after every pass: the budget is used up
DriverBoundedWitness ==
    /\ pm_pc = "raised"
    /\ error = MaxIterationsError
    /\ Has(input_content, MalformedInline)

FatalErrors ==
    {Some("FileNotFoundError"),
     Some("ValueError: Python file execution not allowed"),
     Some("ValueError: Python execution error"),
     MaxIterationsError}

\* C16: an exception raised while the directives are expanded (file not
\* found, Python not allowed, Python failing, budget used up) leaves
\* parse_markdown at once, and no file has been written to output_dir
NoOutputOnFatalError ==
    /\ error # None => error \in FatalErrors /\ pm_pc = "raised"
    /\ pm_pc = "raised" => error # None /\ written = {}
    /\ written # {} => Returned

\* the second pass meets the directive to the missing file
NoOutputOnFatalErrorWitness ==
    /\ pm_pc = "raised"
    /\ error = Some("FileNotFoundError")
    /\ iteration = 2
    /\ written = {}

\* no directive of the text names the template t
OnlyMissing(s) == \A i \in 1..Len(s) : s[i] \notin {SelfClosingT, BlockOpenT}

\* the text with every self-closing directive to t replaced by the template
\* filled in, everything else left where it is
RECURSIVE ExpandedInPlace(_)
ExpandedInPlace(s) ==
    IF s = <<>> THEN <<>>
    ELSE (IF Head(s) = SelfClosingT
          THEN substitute(inlines_dir.t, [a |-> <<"v">>])
          ELSE <<Head(s)>>) \o ExpandedInPlace(Tail(s))

\* C15: a directive that names the missing template is left as it is: a
\* document whose directives all name it comes back unchanged, and among
\* self-closing directives to a template without directives to itself the
\* ones to the missing template stay in their places, unexpanded
MissingLeftUnexpanded ==
    ip_pc = "processed" =>
        /\ OnlyMissing(ip_content) => ip_result.text = ip_content
        /\ (/\ max_depth > 0
            /\ OnlyMissing(inlines_dir.t)
            /\ \A i \in 1..Len(ip_content) :
                  ip_content[i] \in {"x", SelfClosingT, SelfClosingM})
              => ip_result.text = ExpandedInPlace(ip_content)

\* a block and a self-closing directive to the missing template, looked up
MissingLeftUnexpandedWitness ==
    /\ ip_pc = "processed"
    /\ max_depth > 0
    /\ ip_content = <<SelfClosingM, BlockOpenM, BlockClose>>
    /\ ip_result.text = ip_content
    /\ \E r \in ip_result.log : r.kind = "expand"

\* C18: InlineProcessor.process ends with a text; every nested call of
\* _process_recursive runs at a depth greater than its caller's and not
\* beyond max_depth; no directive is expanded at depth max_depth or more; a
\* call at the limit returns its text as it is, directives included, so
\* with max_depth 0 the document comes back unchanged
DepthLimited ==
    ip_pc = "processed" =>
        /\ \A r \in ip_result.log :
              /\ r.kind = "call" => r.depth > r.caller /\ r.depth <= max_depth
              /\ r.kind = "expand" => r.depth < max_depth
              /\ (r.kind = "call" /\ r.depth >= max_depth) => r.unchanged
        /\ max_depth = 0 => ip_result.text = ip_content

\* the template names itself: directives are left in the text at the limit
DepthLimitedWitness ==
    /\ ip_pc = "processed"
    /\ inlines_dir.t = <<"x", SelfClosingT>>
    /\ max_depth >= 2
    /\ \E r \in ip_result.log : r.kind = "call" /\ r.depth = max_depth
    /\ \E i \in 1..Len(ip_result.text) : ip_result.text[i] = SelfClosingT
    /\ Len(ip_result.text) > Len(ip_content)

\* what the template becomes when each placeholder is replaced by the value of
\* the argument of its name, or by the empty string when there is none
RECURSIVE Substituted(_, _)
Substituted(template, args) ==
    IF template = <<>> THEN <<>>
    ELSE LET c == Head(template)
             name == CHOOSE n \in ArgNames : c = "{{" \o n \o "}}"
         IN  (IF c \in {"{{a}}", "{{b}}", "{{c}}"}
              THEN IF name \in DOMAIN args THEN args[name] ELSE <<>>
              ELSE <<c>>) \o Substituted(Tail(template), args)

Expanded == tpl_pc \in {"rendered", "inlined"}

\* C17: when a template is expanded, every placeholder with a matching argument
\* is replaced by the value of the argument at each occurrence, every
\* placeholder without one is replaced by the empty string, an argument without
\* a placeholder is ignored, and no placeholder remains in the expansion.
\* Refuted by process_inlines.replace_inline, which leaves a placeholder
\* without argument in the text.
PlaceholdersSubstituted ==
    Expanded =>
        /\ tpl_rendered = Substituted(tpl_template, tpl_args)
        /\ \A i \in 1..Len(tpl_rendered) : tpl_rendered[i] \notin Placeholders

\* the same for InlineProcessor._render_inline alone, which holds
RenderedSubstituted ==
    tpl_pc = "rendered" =>
        /\ tpl_rendered = Substituted(tpl_template, tpl_args)
        /\ \A i \in 1..Len(tpl_rendered) : tpl_rendered[i] \notin Placeholders

\* replace_inline does what the claim says whenever every placeholder of the
\* file has an argument
InlinedSubstitutedWhenFulfilled ==
    (/\ tpl_pc = "inlined"
     /\ \A i \in 1..Len(tpl_template) :
            tpl_template[i] \in Placeholders => var_name(tpl_template[i]) \in DOMAIN tpl_args)
    => tpl_rendered = Substituted(tpl_template, tpl_args)

\* a lang block of s opens at o: an opening tag with a closing tag after it,
\* not inside an earlier block (no opening tag between the last closing tag
\* before o and o)
IsBlockStart(s, o) ==
    /\ s[o] \in LangOpeners
    /\ \E c \in (o + 1)..Len(s) : s[c] = LangClose
    /\ \A j \in 1..(o - 1) :
          s[j] \in LangOpeners => \E c \in (j + 1)..(o - 1) : s[c] = LangClose

\* the closing tag of the block that opens at o: the nearest one
BlockEnd(s, o) == CHOOSE c \in (o + 1)..Len(s) :
                      s[c] = LangClose /\ \A k \in (o + 1)..(c - 1) : s[k] # LangClose

BlockStarts(s) == {o \in 1..Len(s) : IsBlockStart(s, o)}

\* the positions outside every block
Outside(s) ==
    {i \in 1..Len(s) : \A o \in BlockStarts(s) : i < o \/ i > BlockEnd(s, o)}

\* the positions inside the body of a block whose code is T
InBodyOf(s, T) ==
    {i \in 1..Len(s) : \E o \in BlockStarts(s) :
        block_lang(s[o]) = T /\ o < i /\ i < BlockEnd(s, o)}

\* the tokens of s at the positions K, in their order
At(s, K) ==
    [k \in 1..Cardinality(K) |->
        s[CHOOSE i \in K : Cardinality({j \in K : j <= i}) = k]]

NoLangTag(s) == \A i \in 1..Len(s) : s[i] \notin LangTags

FilteredForLanguage == lf_pc = "filtered"

\* C19 as stated: filtering for T replaces every block whose code is T by its
\* body and every other block by the empty string, so the output is the
\* untagged text and the bodies tagged T, and holds no lang tag.  Refuted: a
\* tag that belongs to no block, and a tag inside the body of a block, stay.
LangBlocksReplaced ==
    FilteredForLanguage =>
        /\ lf_filtered = At(lf_content, Outside(lf_content) \cup InBodyOf(lf_content, lf_language))
        /\ NoLangTag(lf_filtered)

\* every tag of s opens or closes a block
ProperlyTagged(s) ==
    \A i \in 1..Len(s) :
        s[i] \in LangTags => \E o \in BlockStarts(s) : i = o \/ i = BlockEnd(s, o)

\* C19, amended: filtering for T replaces every block whose code is T by its
\* body and every other block by the empty string; the output is the text
\* outside the blocks and the bodies tagged T, in their order, and it holds no
\* lang tag when every tag of the document opens or closes a block.
LangBlocksReplacedProperlyTagged ==
    FilteredForLanguage =>
        /\ lf_filtered = At(lf_content, Outside(lf_content) \cup InBodyOf(lf_content, lf_language))
        /\ ProperlyTagged(lf_content) => NoLangTag(lf_filtered)

\* shared text, an English and a German block, filtered for EN
LangBlocksReplacedWitness ==
    /\ FilteredForLanguage
    /\ lf_content = <<"x", LangEN, "e", LangClose, LangDE, "d", LangClose>>
    /\ lf_language = "EN"
    /\ lf_filtered = <<"x", "e">>

RECURSIVE IsSubsequence(_, _)
IsSubsequence(a, b) ==
    IF a = <<>> THEN TRUE
    ELSE IF b = <<>> THEN FALSE
    ELSE IF Head(a) = Head(b) THEN IsSubsequence(Tail(a), Tail(b))
    ELSE IsSubsequence(a, Tail(b))

\* the frame of the filter on a document and its output
OutsideKept(s, out) ==
    /\ BlockStarts(s) = {} => out = s
    /\ IsSubsequence(At(s, Outside(s)), out)

\* C20: language filtering never modifies the text outside the lang blocks: a
\* document without a block is returned unchanged, and the characters outside
\* the blocks are in the output, unchanged and in their order.  Refuted by
\* filter_content_by_language, which collapses blank lines and strips the text.
OutsideBlocksUnchanged ==
    lf_pc \in {"filtered", "split"} => OutsideKept(lf_content, lf_filtered)

\* the same for LanguageFilter.filter_for_language alone, which holds
FilterForLanguageKeepsOutside ==
    FilteredForLanguage => OutsideKept(lf_content, lf_filtered)

Parsed == mdp_pc = "parsed"

\* the positions of the headings of the parsed document, in order
ParsedHeadings == HeadingsFrom(markdown_content, 1)

\* the scan window of heading i: the lines between the previous heading (or
\* the start of the document) and heading i
WindowOf(i) ==
    SubSeq(markdown_content,
           (IF i > 1 THEN ParsedHeadings[i - 1] ELSE 0) + 1, ParsedHeadings[i] - 1)

DirectivesIn(window) == {k \in 1..Len(window) : window[k] \in DirectiveLines}

\* what the directives of a window make of a heading: the last landscape or
\* portrait directive gives the orientation, an addendum directive level 0,
\* a notoc directive the exclusion
SectionFor(heading, window) ==
    [level |-> IF \E k \in 1..Len(window) : window[k] = AddendumLine
               THEN 0 ELSE heading_level(heading),
     orientation |->
         IF \E k \in 1..Len(window) :
                /\ window[k] = LandscapeLine
                /\ \A j \in (k + 1)..Len(window) : window[j] # PortraitLine
         THEN "landscape" ELSE "portrait",
     exclude_from_toc |-> \E k \in 1..Len(window) : window[k] = NotocLine]

SeveralDirectivesComposeNoBlankLine ==
    Parsed =>
        \A i \in 1..Len(parsed) :
            (/\ Cardinality(DirectivesIn(WindowOf(i))) >= 2
             /\ \A k \in 1..Len(WindowOf(i)) : WindowOf(i)[k] # BlankLine)
            => parsed[i] = SectionFor(markdown_content[ParsedHeadings[i]], WindowOf(i))

WindowDirectivesAppliedNoBlankLine ==
    Parsed =>
        \A i \in 1..Len(parsed) :
            (\A k \in 1..Len(WindowOf(i)) : WindowOf(i)[k] # BlankLine)
            => parsed[i] = SectionFor(markdown_content[ParsedHeadings[i]], WindowOf(i))

\* the text with every directive line inside a fenced code block replaced by
\* a line of text
WithoutCodeDirectives(text) ==
    [p \in 1..Len(text) |->
        IF text[p] \in DirectiveLines /\ is_in_code_block(text, p)
        THEN TextLine ELSE text[p]]

CodeHeadingsIgnored ==
    Parsed =>
        Len(parsed) =
            Cardinality({p \in 1..Len(markdown_content) :
                /\ markdown_content[p] \in HeadingLines
                /\ Cardinality({j \in 1..(p - 1) : markdown_content[j] = FenceLine}) % 2 = 0})

\* the text holds a directive for the .py file outside code
PyDirectiveOutsideCode(s) ==
    LET protected == extract_code_blocks(s).text
    IN  \E i \in 1..Len(protected) : protected[i] = InlinePy

\* C23: host code is executed only when allow_python is true: with
\* allow_python false nothing is ever executed and a pass over a text with a
\* directive for a .py file raises an error; a pass over a text without such
\* a directive inserts its files as text and executes nothing.
HostCodeOnlyWhenAllowed ==
    /\ [](executed > 0 => allow_python)
    /\ [][(pm_pc = "expanding" /\ ~allow_python /\ PyDirectiveOutsideCode(md_content))
            => (pm_pc' = "raised" /\ error' # None /\ executed' = 0)]_vars
    /\ [][~PyDirectiveOutsideCode(md_content) => executed' = executed]_vars

\* a .py file named while allow_python is false
HostCodeOnlyWhenAllowedWitness ==
    /\ ~allow_python
    /\ PyDirectiveOutsideCode(md_content)
    /\ pm_pc = "raised"
    /\ error = Some("ValueError: Python file execution not allowed")
    /\ executed = 0

\* the text outside the code span with its inline directives expanded
InlinedOutside(t) == StrReplace(t, InlineA, CodeBaseDir.a)

\* what language.py does to the whole text after the filter: runs of blank
\* lines collapsed, the text stripped, a newline appended
Tidied(t) ==
    LET stripped == StripNewlines(CollapseNewlines(t))
    IN  IF stripped # <<>> THEN Append(stripped, Newline) ELSE <<>>

\* the document filtered with the code span taken as one opaque character
FilteredAroundSpan ==
    StrReplace(filter_for_language(cs_pre \o <<"CODE">> \o cs_post, cs_language),
               "CODE", cs_span)

\* the claim of C24 for the three functions
CodeLeftAlone ==
    /\ cs_pc = "inlined" =>
           cs_out.text = InlinedOutside(cs_pre) \o cs_span \o InlinedOutside(cs_post)
    /\ cs_pc = "scanned" =>
           cs_out.found = (\E i \in 1..Len(cs_pre \o cs_post) :
                              (cs_pre \o cs_post)[i] \in InlineMarkers)
    /\ cs_pc = "filtered" => cs_out.text = Tidied(FilteredAroundSpan)

\* C24: text inside a fenced or inline code span is never treated as a
\* directive: an inline directive inside code is not expanded by
\* process_inlines and not counted by has_directives, a lang tag inside code
\* neither opens nor closes a language block, and the text of the code span is
\* identical in the output.  Refuted for a span inside a span, which does not
\* come back from the placeholders (see C1).
CodeNeverDirective == CodeLeftAlone

\* the code span is not one that holds another
Unnested == Len(cs_span) # 9 \/ cs_span[2] # "x"

\* the same for the spans that hold no other span, which holds
CodeNeverDirectiveUnnested == Unnested => CodeLeftAlone

\* the open elements after the lines from position i on, when stack holds the
\* open elements before them (innermost last); <<"bad">> once a line closes
\* an element that is not the innermost open one, a <li> is opened outside a
\* <ul>, or a nested <ul> is opened outside a <li>
RECURSIVE OpenElements(_, _, _)
OpenElements(lines, i, stack) ==
    IF i > Len(lines) THEN stack
    ELSE LET tag == lines[i].tag
             top == IF stack = <<>> THEN "" ELSE stack[Len(stack)]
             pop == SubSeq(stack, 1, Len(stack) - 1)
         IN  CASE tag = "<ul>" ->
                      IF top \in {"", "<li>"}
                      THEN OpenElements(lines, i + 1, Append(stack, "<ul>"))
                      ELSE <<"bad">>
               [] tag = "<li>" ->
                      IF top = "<ul>"
                      THEN OpenElements(lines, i + 1, Append(stack, "<li>"))
                      ELSE <<"bad">>
               [] tag = "</li>" ->
                      IF top = "<li>" THEN OpenElements(lines, i + 1, pop) ELSE <<"bad">>
               [] tag = "</ul>" ->
                      IF top = "<ul>" THEN OpenElements(lines, i + 1, pop) ELSE <<"bad">>
               [] OTHER -> OpenElements(lines, i + 1, stack)

WellNested(lines) == OpenElements(lines, 1, <<>>) = <<>>

\* the list items of the lines, in order
ListItems(lines) == SelectSeq(lines, LAMBDA l : l.tag = "<li>")

\* the heading levels start at 1 and never go more than one level deeper than
\* the heading before
StepsDown(hs) ==
    /\ hs # <<>> => hs[1].level = 1
    /\ \A i \in 2..Len(hs) : hs[i].level <= hs[i - 1].level + 1

\* C25: _build_toc_html emits exactly one <li> per heading, in heading order,
\* and for a heading sequence that starts at level 1 and never goes more than
\* one level deeper than the heading before it the markup is well nested:
\* every </li> and </ul> closes the innermost open element, every <li> is in
\* a <ul> and every nested <ul> in the <li> of its parent
TocWellNested ==
    toc_pc = "built" =>
        /\ Len(ListItems(toc_lines)) = Len(toc_headings)
        /\ \A i \in 1..Len(toc_headings) : ListItems(toc_lines)[i].href = toc_headings[i].id
        /\ StepsDown(toc_headings) => WellNested(toc_lines)

TocWellNestedWitness ==
    /\ toc_pc = "built"
    /\ Len(toc_headings) = 3
    /\ toc_headings[1].level = 1 /\ toc_headings[2].level = 2 /\ toc_headings[3].level = 1
    /\ WellNested(toc_lines)

\* the sections as add_section got them: the manual numbers, None elsewhere
AsAdded(secs) ==
    [i \in 1..Len(secs) |->
        [secs[i] EXCEPT !.number = IF secs[i].manual THEN secs[i].number ELSE None]]

\* all sections without a manual number numbered once, in list order, by a
\* fresh numberer
NumberedOnce(secs) == NumberUnnumbered(AsAdded(secs), 1, NewNumberer)

\* C29: in any interleaving of add_section and build_html without
\* clear_sections a section's number never changes once it is assigned (a
\* manual number is kept and does not advance the counters), and the automatic
\* numbers are those of numbering all sections without a manual number once,
\* in list order, with a fresh numberer
NumbersStable ==
    /\ [][doc_op' # "clear_sections" =>
             \A i \in 1..Len(sections) :
                 sections[i].number # None =>
                     /\ i <= Len(sections')
                     /\ sections'[i].number = sections[i].number]_vars
    /\ [](~cleared =>
             /\ \A i \in 1..Len(sections) :
                    /\ sections[i].number # None =>
                           sections[i].number = NumberedOnce(sections).sections[i].number
                    /\ sections[i].manual => sections[i].number # None
             /\ numbered =>
                    /\ sections = NumberedOnce(sections).sections
                    /\ Numberer = NumberedOnce(sections).numberer)

NumbersStableWitness ==
    /\ ~cleared
    /\ doc_op = "add_section"
    /\ Len(sections) = 3
    /\ ~sections[1].manual /\ sections[1].number = Some("1")
    /\ sections[2].manual /\ sections[2].number = Some("X")
    /\ sections[3].level = 1 /\ sections[3].number = None

\* what the file of a name gives when it is looked up now
LookedUp(name) ==
    IF template_files[name].exists /\ ~template_files[name].raises
    THEN Some(template_files[name].text) ELSE None

\* C28: a template that was loaded once is served from the cache on every
\* later use, even if its file has changed or disappeared since; a name that
\* was not found is not cached and is looked up again on the next use
TemplateCachedOnceLoaded ==
    /\ [][lt_pc' = "loaded" =>
             /\ lt_name' \in DOMAIN lt_first => lt_returned' = Some(lt_first[lt_name'])
             /\ lt_name' \notin DOMAIN lt_first => lt_returned' = LookedUp(lt_name')]_vars
    /\ [](lt_pc = "loaded" /\ lt_returned = None => lt_name \notin DOMAIN template_cache)

TemplateCachedOnceLoadedWitness ==
    /\ lt_pc = "loaded"
    /\ lt_name = "t"
    /\ lt_first = ("t" :> <<"x">>)
    /\ ~template_files.t.exists
    /\ template_files.u.exists /\ ~template_files.u.raises
    /\ lt_returned = Some(<<"x">>)

\* the document inlines the first file of the chain outside code
ChainStarted == Active(input_content, ChainDirective(1))

\* C30: a chain of k inline files (the document inlines c1.md, every file
\* but the last inlines the next) is fully expanded in exactly k passes when
\* k <= MAX_ITERATIONS, and ends in the max-iterations error, after
\* MAX_ITERATIONS passes, when k > MAX_ITERATIONS; a document with no inline
\* directive outside code is returned unchanged after zero passes
ChainExpandedInKPasses ==
    /\ [](ChainStarted /\ pm_pc = "expanding" => iteration <= base_dir.c)
    /\ [](ChainStarted /\ pm_pc # "expanding" /\ base_dir.c <= MAX_ITERATIONS =>
             /\ Returned
             /\ iteration = base_dir.c
             /\ md_content = StrReplace(input_content, ChainDirective(1), <<"x">>))
    /\ [](ChainStarted /\ pm_pc # "expanding" /\ base_dir.c > MAX_ITERATIONS =>
             RaisedAfterMax)
    /\ [](~ChainStarted =>
             /\ iteration = 0
             /\ md_content = input_content
             /\ pm_pc # "expanding" => Returned)
    /\ [][pm_pc = "expanding" => pm_pc' # "expanding" \/ iteration' = iteration + 1]_vars

ChainExpandedInKPassesWitness ==
    /\ pm_pc = "returned"
    /\ base_dir.c = MAX_ITERATIONS
    /\ iteration = MAX_ITERATIONS
    /\ input_content = <<Backtick, InlineA, Backtick, ChainDirective(1)>>
    /\ md_content = <<Backtick, InlineA, Backtick, "x">>

\* the chain of MAX_ITERATIONS + 1 files has ended in the error
ChainTooLongRaised ==
    /\ ChainStarted
    /\ base_dir.c = MAX_ITERATIONS + 1
    /\ RaisedAfterMax

\* a document without an inline directive outside code has been returned
\* as it was
NoDirectiveReturned ==
    /\ pm_pc = "returned"
    /\ iteration = 0
    /\ Has(input_content, ChainDirective(1))
    /\ md_content = input_content

====
